---------------------------- MODULE Spec2Model ----------------------------
(***************************************************************************)
(* Event-matching engine of Ko-AD/eval_metric: ClusterMatcher,             *)
(* OverlapMatcher and DPMatcher (matchers.py) over ADEvent / MatchedPair   *)
(* (utils.py), and the evaluation run built on them: get_matcher,          *)
(* run_evaluation, calculate_coverage_stats and the precision / recall /   *)
(* F1 arithmetic (cli.py).                                                 *)
(*                                                                         *)
(* Specifications.                                                         *)
(*  - Spec: one call of a matcher, or one run_evaluation, on loaded lists; *)
(*    IntervalSpec, DPSpec and EvaluationSpec are its parts.               *)
(*  - CallSpec: repeated match() calls on one matcher object, run on the   *)
(*    list and matcher objects of the caller.                              *)
(*  - StatsSpec: the score arithmetic over all small count combinations;   *)
(*    CoverageSpec is Spec and StatsSpec together.                         *)
(*  - UnionFindSpec: a UnionFind under any calls of union and find.        *)
(*  - DPAlignSpec: the backtracking loop of _dp_align, step by step.       *)
(*                                                                         *)
(* Representation.                                                         *)
(*  - Times are whole seconds.  min_overlap_sec is kept as a number of     *)
(*    half seconds (TimeDen = 2), so that the default 0.5 is the integer 1 *)
(*    and "overlap >= min_overlap_sec" is "overlap * TimeDen >= mo".       *)
(*  - A Python str that the program lowers, splits or joins (the text of   *)
(*    an event, a method name) is the sequence of its code points; names   *)
(*    the program only compares (match_type, the name of a matcher, the    *)
(*    class of an exception) are strings.                                  *)
(*  - Python's None is the empty tuple, a present value v is <<v>>.        *)
(*  - Python lists are sequences (position p of the list is p + 1 here);   *)
(*    UnionFind.parent / rank, the similarity matrix and the dp / bt       *)
(*    tables keep the 0-based indices of the code.                         *)
(*  - Scores, coverage percentages, precision, recall and F1 are Python    *)
(*    floats, computed as the code computes them: every operation is       *)
(*    rounded to the nearest double (section "Python floats"), and         *)
(*    math.exp is the exp of the C library.  The weights, gap penalties    *)
(*    and time_scale of a DPMatcher are floats: FloatDiv(3, 10) is the     *)
(*    double nearest to 3 / 10, which is what the literal 0.3 is.          *)
(*  - A call that can raise gives Returned(value) or Raised(exception).    *)
(***************************************************************************)
EXTENDS Integers, Sequences, FiniteSets, TLC

VARIABLES gen_events, ref_events, pc, matcher, matched_pairs, uf, sim_matrix, alignment,
          first_pairs, calls, config, error, coverage, counts, scores, ij, dp_bt

vars == <<gen_events, ref_events, pc, matcher, matched_pairs, uf, sim_matrix, alignment,
          first_pairs, calls, config, error, coverage, counts, scores, ij, dp_bt>>

(***************************************************************************)
(* Bounds of the explored inputs.                                          *)
(***************************************************************************)
MaxTime == 2
MaxGen == 2
MaxRef == 2
MaxEvents == 3
MaxCallEvents == 2
MaxCalls == 3
MaxTotalGen == 10
MaxTotalRef == 8
MaxIndices == 4
MaxPairs == 3

TimeDen == 2

None == <<>>
Some(v) == <<v>>

\* what a call that can raise gives
Returned(v) == [error |-> None, value |-> v]
Raised(e) == [error |-> Some(e), value |-> None]

Max(a, b) == IF a >= b THEN a ELSE b
Min(a, b) == IF a <= b THEN a ELSE b

Range(s) == {s[k] : k \in 1..Len(s)}

RECURSIVE Flatten(_)
Flatten(ss) == IF ss = <<>> THEN <<>> ELSE Head(ss) \o Flatten(Tail(ss))

(***************************************************************************)
(* Python strings.  A str is the sequence of its code points.  Str gives   *)
(* the str of a literal of printable ASCII characters.                     *)
(***************************************************************************)
\* the characters 32 .. 95 and 97 .. 126
AsciiUpper == " !\"#$%&'()*+,-./0123456789:;<=>?@ABCDEFGHIJKLMNOPQRSTUVWXYZ[\\]^_"
AsciiLower == "abcdefghijklmnopqrstuvwxyz{|}~"

\* the character at place k of a literal
CharAt(literal, k) == SubSeq(literal, k, k)

\* the code point of each of these characters
AsciiOrd ==
    [c \in {CharAt(AsciiUpper, k) : k \in 1..Len(AsciiUpper)}
              \cup {CharAt(AsciiLower, k) : k \in 1..Len(AsciiLower)} |->
        IF \E k \in 1..Len(AsciiUpper) : CharAt(AsciiUpper, k) = c
        THEN 31 + CHOOSE k \in 1..Len(AsciiUpper) : CharAt(AsciiUpper, k) = c
        ELSE 96 + CHOOSE k \in 1..Len(AsciiLower) : CharAt(AsciiLower, k) = c]

\* ord(c)
Ord(c) == AsciiOrd[c]

Str(literal) == [k \in 1..Len(literal) |-> Ord(CharAt(literal, k))]

\* the characters str.split() takes for separators: those with str.isspace
Whitespace ==
    {9, 10, 11, 12, 13, 28, 29, 30, 31, 32, 133, 160, 5760, 8232, 8233, 8239, 8287, 12288}
        \cup (8192..8202)

\* str.split(): st.words are the words that have ended before position k, st.word the
\* characters read of the word that has not
RECURSIVE SplitFrom(_, _, _)
SplitFrom(s, k, st) ==
    LET ended == IF st.word = <<>> THEN st.words ELSE Append(st.words, st.word)
    IN  IF k > Len(s) THEN ended
        ELSE IF s[k] \in Whitespace THEN SplitFrom(s, k + 1, [words |-> ended, word |-> <<>>])
        ELSE SplitFrom(s, k + 1, [words |-> st.words, word |-> Append(st.word, s[k])])

split(s) == SplitFrom(s, 1, [words |-> <<>>, word |-> <<>>])

\* separator.join(texts)
RECURSIVE join(_, _)
join(separator, texts) ==
    IF texts = <<>> THEN <<>>
    ELSE IF Len(texts) = 1 THEN texts[1]
    ELSE texts[1] \o separator \o join(separator, Tail(texts))

(***************************************************************************)
(* str.lower, from the Unicode 14.0 database of the interpreter.           *)
(* LowerRanges holds <<first, last, delta, step>>: the characters first,   *)
(* first + step, ..., last lower to themselves plus delta.  CasedRanges    *)
(* and CaseIgnorableRanges hold <<first, last>>; CasedRanges leaves out    *)
(* the cased characters that are case-ignorable too, which the scan around *)
(* a capital sigma passes over before it asks whether a character is       *)
(* cased.                                                                  *)
(***************************************************************************)
LowerRanges ==
    {<<192, 214, 32, 1>>, <<216, 222, 32, 1>>, <<256, 302, 1, 2>>, <<306, 310, 1, 2>>,
     <<313, 327, 1, 2>>, <<330, 374, 1, 2>>, <<376, 376, -121, 1>>, <<377, 381, 1, 2>>,
     <<385, 385, 210, 1>>, <<386, 388, 1, 2>>, <<390, 390, 206, 1>>, <<391, 391, 1, 1>>,
     <<393, 394, 205, 1>>, <<395, 395, 1, 1>>, <<398, 398, 79, 1>>,
     <<399, 399, 202, 1>>, <<400, 400, 203, 1>>, <<401, 401, 1, 1>>,
     <<403, 403, 205, 1>>, <<404, 404, 207, 1>>, <<406, 406, 211, 1>>,
     <<407, 407, 209, 1>>, <<408, 408, 1, 1>>, <<412, 412, 211, 1>>,
     <<413, 413, 213, 1>>, <<415, 415, 214, 1>>, <<416, 420, 1, 2>>,
     <<422, 422, 218, 1>>, <<423, 423, 1, 1>>, <<425, 425, 218, 1>>, <<428, 428, 1, 1>>,
     <<430, 430, 218, 1>>, <<431, 431, 1, 1>>, <<433, 434, 217, 1>>, <<435, 437, 1, 2>>,
     <<439, 439, 219, 1>>, <<440, 440, 1, 1>>, <<444, 444, 1, 1>>, <<452, 452, 2, 1>>,
     <<453, 453, 1, 1>>, <<455, 455, 2, 1>>, <<456, 456, 1, 1>>, <<458, 458, 2, 1>>,
     <<459, 475, 1, 2>>, <<478, 494, 1, 2>>, <<497, 497, 2, 1>>, <<498, 500, 1, 2>>,
     <<502, 502, -97, 1>>, <<503, 503, -56, 1>>, <<504, 542, 1, 2>>,
     <<544, 544, -130, 1>>, <<546, 562, 1, 2>>, <<570, 570, 10795, 1>>,
     <<571, 571, 1, 1>>, <<573, 573, -163, 1>>, <<574, 574, 10792, 1>>,
     <<577, 577, 1, 1>>, <<579, 579, -195, 1>>, <<580, 580, 69, 1>>,
     <<581, 581, 71, 1>>, <<582, 590, 1, 2>>, <<880, 882, 1, 2>>, <<886, 886, 1, 1>>,
     <<895, 895, 116, 1>>, <<902, 902, 38, 1>>, <<904, 906, 37, 1>>,
     <<908, 908, 64, 1>>, <<910, 911, 63, 1>>, <<913, 929, 32, 1>>, <<932, 939, 32, 1>>,
     <<975, 975, 8, 1>>, <<984, 1006, 1, 2>>, <<1012, 1012, -60, 1>>,
     <<1015, 1015, 1, 1>>, <<1017, 1017, -7, 1>>, <<1018, 1018, 1, 1>>,
     <<1021, 1023, -130, 1>>, <<1024, 1039, 80, 1>>, <<1040, 1071, 32, 1>>,
     <<1120, 1152, 1, 2>>, <<1162, 1214, 1, 2>>, <<1216, 1216, 15, 1>>,
     <<1217, 1229, 1, 2>>, <<1232, 1326, 1, 2>>, <<1329, 1366, 48, 1>>,
     <<4256, 4293, 7264, 1>>, <<4295, 4295, 7264, 1>>, <<4301, 4301, 7264, 1>>,
     <<5024, 5103, 38864, 1>>, <<5104, 5109, 8, 1>>, <<7312, 7354, -3008, 1>>,
     <<7357, 7359, -3008, 1>>, <<7680, 7828, 1, 2>>, <<7838, 7838, -7615, 1>>,
     <<7840, 7934, 1, 2>>, <<7944, 7951, -8, 1>>, <<7960, 7965, -8, 1>>,
     <<7976, 7983, -8, 1>>, <<7992, 7999, -8, 1>>, <<8008, 8013, -8, 1>>,
     <<8025, 8031, -8, 2>>, <<8040, 8047, -8, 1>>, <<8072, 8079, -8, 1>>,
     <<8088, 8095, -8, 1>>, <<8104, 8111, -8, 1>>, <<8120, 8121, -8, 1>>,
     <<8122, 8123, -74, 1>>, <<8124, 8124, -9, 1>>, <<8136, 8139, -86, 1>>,
     <<8140, 8140, -9, 1>>, <<8152, 8153, -8, 1>>, <<8154, 8155, -100, 1>>,
     <<8168, 8169, -8, 1>>, <<8170, 8171, -112, 1>>, <<8172, 8172, -7, 1>>,
     <<8184, 8185, -128, 1>>, <<8186, 8187, -126, 1>>, <<8188, 8188, -9, 1>>,
     <<8486, 8486, -7517, 1>>, <<8490, 8490, -8383, 1>>, <<8491, 8491, -8262, 1>>,
     <<8498, 8498, 28, 1>>, <<8544, 8559, 16, 1>>, <<8579, 8579, 1, 1>>,
     <<9398, 9423, 26, 1>>, <<11264, 11311, 48, 1>>, <<11360, 11360, 1, 1>>,
     <<11362, 11362, -10743, 1>>, <<11363, 11363, -3814, 1>>,
     <<11364, 11364, -10727, 1>>, <<11367, 11371, 1, 2>>, <<11373, 11373, -10780, 1>>,
     <<11374, 11374, -10749, 1>>, <<11375, 11375, -10783, 1>>,
     <<11376, 11376, -10782, 1>>, <<11378, 11378, 1, 1>>, <<11381, 11381, 1, 1>>,
     <<11390, 11391, -10815, 1>>, <<11392, 11490, 1, 2>>, <<11499, 11501, 1, 2>>,
     <<11506, 11506, 1, 1>>, <<42560, 42604, 1, 2>>, <<42624, 42650, 1, 2>>,
     <<42786, 42798, 1, 2>>, <<42802, 42862, 1, 2>>, <<42873, 42875, 1, 2>>,
     <<42877, 42877, -35332, 1>>, <<42878, 42886, 1, 2>>, <<42891, 42891, 1, 1>>,
     <<42893, 42893, -42280, 1>>, <<42896, 42898, 1, 2>>, <<42902, 42920, 1, 2>>,
     <<42922, 42922, -42308, 1>>, <<42923, 42923, -42319, 1>>,
     <<42924, 42924, -42315, 1>>, <<42925, 42925, -42305, 1>>,
     <<42926, 42926, -42308, 1>>, <<42928, 42928, -42258, 1>>,
     <<42929, 42929, -42282, 1>>, <<42930, 42930, -42261, 1>>, <<42931, 42931, 928, 1>>,
     <<42932, 42946, 1, 2>>, <<42948, 42948, -48, 1>>, <<42949, 42949, -42307, 1>>,
     <<42950, 42950, -35384, 1>>, <<42951, 42953, 1, 2>>, <<42960, 42960, 1, 1>>,
     <<42966, 42968, 1, 2>>, <<42997, 42997, 1, 1>>, <<65313, 65338, 32, 1>>,
     <<66560, 66599, 40, 1>>, <<66736, 66771, 40, 1>>, <<66928, 66938, 39, 1>>,
     <<66940, 66954, 39, 1>>, <<66956, 66962, 39, 1>>, <<66964, 66965, 39, 1>>,
     <<68736, 68786, 64, 1>>, <<71840, 71871, 32, 1>>, <<93760, 93791, 32, 1>>,
     <<125184, 125217, 34, 1>>}

CasedRanges ==
    {<<65, 90>>, <<97, 122>>, <<170, 170>>, <<181, 181>>, <<186, 186>>, <<192, 214>>,
     <<216, 246>>, <<248, 442>>, <<444, 447>>, <<452, 659>>, <<661, 687>>, <<880, 883>>,
     <<886, 887>>, <<891, 893>>, <<895, 895>>, <<902, 902>>, <<904, 906>>, <<908, 908>>,
     <<910, 929>>, <<931, 1013>>, <<1015, 1153>>, <<1162, 1327>>, <<1329, 1366>>,
     <<1376, 1416>>, <<4256, 4293>>, <<4295, 4295>>, <<4301, 4301>>, <<4304, 4346>>,
     <<4349, 4351>>, <<5024, 5109>>, <<5112, 5117>>, <<7296, 7304>>, <<7312, 7354>>,
     <<7357, 7359>>, <<7424, 7467>>, <<7531, 7543>>, <<7545, 7578>>, <<7680, 7957>>,
     <<7960, 7965>>, <<7968, 8005>>, <<8008, 8013>>, <<8016, 8023>>, <<8025, 8025>>,
     <<8027, 8027>>, <<8029, 8029>>, <<8031, 8061>>, <<8064, 8116>>, <<8118, 8124>>,
     <<8126, 8126>>, <<8130, 8132>>, <<8134, 8140>>, <<8144, 8147>>, <<8150, 8155>>,
     <<8160, 8172>>, <<8178, 8180>>, <<8182, 8188>>, <<8450, 8450>>, <<8455, 8455>>,
     <<8458, 8467>>, <<8469, 8469>>, <<8473, 8477>>, <<8484, 8484>>, <<8486, 8486>>,
     <<8488, 8488>>, <<8490, 8493>>, <<8495, 8500>>, <<8505, 8505>>, <<8508, 8511>>,
     <<8517, 8521>>, <<8526, 8526>>, <<8544, 8575>>, <<8579, 8580>>, <<9398, 9449>>,
     <<11264, 11387>>, <<11390, 11492>>, <<11499, 11502>>, <<11506, 11507>>,
     <<11520, 11557>>, <<11559, 11559>>, <<11565, 11565>>, <<42560, 42605>>,
     <<42624, 42651>>, <<42786, 42863>>, <<42865, 42887>>, <<42891, 42894>>,
     <<42896, 42954>>, <<42960, 42961>>, <<42963, 42963>>, <<42965, 42969>>,
     <<42997, 42998>>, <<43002, 43002>>, <<43824, 43866>>, <<43872, 43880>>,
     <<43888, 43967>>, <<64256, 64262>>, <<64275, 64279>>, <<65313, 65338>>,
     <<65345, 65370>>, <<66560, 66639>>, <<66736, 66771>>, <<66776, 66811>>,
     <<66928, 66938>>, <<66940, 66954>>, <<66956, 66962>>, <<66964, 66965>>,
     <<66967, 66977>>, <<66979, 66993>>, <<66995, 67001>>, <<67003, 67004>>,
     <<68736, 68786>>, <<68800, 68850>>, <<71840, 71903>>, <<93760, 93823>>,
     <<119808, 119892>>, <<119894, 119964>>, <<119966, 119967>>, <<119970, 119970>>,
     <<119973, 119974>>, <<119977, 119980>>, <<119982, 119993>>, <<119995, 119995>>,
     <<119997, 120003>>, <<120005, 120069>>, <<120071, 120074>>, <<120077, 120084>>,
     <<120086, 120092>>, <<120094, 120121>>, <<120123, 120126>>, <<120128, 120132>>,
     <<120134, 120134>>, <<120138, 120144>>, <<120146, 120485>>, <<120488, 120512>>,
     <<120514, 120538>>, <<120540, 120570>>, <<120572, 120596>>, <<120598, 120628>>,
     <<120630, 120654>>, <<120656, 120686>>, <<120688, 120712>>, <<120714, 120744>>,
     <<120746, 120770>>, <<120772, 120779>>, <<122624, 122633>>, <<122635, 122654>>,
     <<125184, 125251>>, <<127280, 127305>>, <<127312, 127337>>, <<127344, 127369>>}

CaseIgnorableRanges ==
    {<<39, 39>>, <<46, 46>>, <<58, 58>>, <<94, 94>>, <<96, 96>>, <<168, 168>>,
     <<173, 173>>, <<175, 175>>, <<180, 180>>, <<183, 184>>, <<688, 879>>, <<884, 885>>,
     <<890, 890>>, <<900, 901>>, <<903, 903>>, <<1155, 1161>>, <<1369, 1369>>,
     <<1375, 1375>>, <<1425, 1469>>, <<1471, 1471>>, <<1473, 1474>>, <<1476, 1477>>,
     <<1479, 1479>>, <<1524, 1524>>, <<1536, 1541>>, <<1552, 1562>>, <<1564, 1564>>,
     <<1600, 1600>>, <<1611, 1631>>, <<1648, 1648>>, <<1750, 1757>>, <<1759, 1768>>,
     <<1770, 1773>>, <<1807, 1807>>, <<1809, 1809>>, <<1840, 1866>>, <<1958, 1968>>,
     <<2027, 2037>>, <<2042, 2042>>, <<2045, 2045>>, <<2070, 2093>>, <<2137, 2139>>,
     <<2184, 2184>>, <<2192, 2193>>, <<2200, 2207>>, <<2249, 2306>>, <<2362, 2362>>,
     <<2364, 2364>>, <<2369, 2376>>, <<2381, 2381>>, <<2385, 2391>>, <<2402, 2403>>,
     <<2417, 2417>>, <<2433, 2433>>, <<2492, 2492>>, <<2497, 2500>>, <<2509, 2509>>,
     <<2530, 2531>>, <<2558, 2558>>, <<2561, 2562>>, <<2620, 2620>>, <<2625, 2626>>,
     <<2631, 2632>>, <<2635, 2637>>, <<2641, 2641>>, <<2672, 2673>>, <<2677, 2677>>,
     <<2689, 2690>>, <<2748, 2748>>, <<2753, 2757>>, <<2759, 2760>>, <<2765, 2765>>,
     <<2786, 2787>>, <<2810, 2815>>, <<2817, 2817>>, <<2876, 2876>>, <<2879, 2879>>,
     <<2881, 2884>>, <<2893, 2893>>, <<2901, 2902>>, <<2914, 2915>>, <<2946, 2946>>,
     <<3008, 3008>>, <<3021, 3021>>, <<3072, 3072>>, <<3076, 3076>>, <<3132, 3132>>,
     <<3134, 3136>>, <<3142, 3144>>, <<3146, 3149>>, <<3157, 3158>>, <<3170, 3171>>,
     <<3201, 3201>>, <<3260, 3260>>, <<3263, 3263>>, <<3270, 3270>>, <<3276, 3277>>,
     <<3298, 3299>>, <<3328, 3329>>, <<3387, 3388>>, <<3393, 3396>>, <<3405, 3405>>,
     <<3426, 3427>>, <<3457, 3457>>, <<3530, 3530>>, <<3538, 3540>>, <<3542, 3542>>,
     <<3633, 3633>>, <<3636, 3642>>, <<3654, 3662>>, <<3761, 3761>>, <<3764, 3772>>,
     <<3782, 3782>>, <<3784, 3789>>, <<3864, 3865>>, <<3893, 3893>>, <<3895, 3895>>,
     <<3897, 3897>>, <<3953, 3966>>, <<3968, 3972>>, <<3974, 3975>>, <<3981, 3991>>,
     <<3993, 4028>>, <<4038, 4038>>, <<4141, 4144>>, <<4146, 4151>>, <<4153, 4154>>,
     <<4157, 4158>>, <<4184, 4185>>, <<4190, 4192>>, <<4209, 4212>>, <<4226, 4226>>,
     <<4229, 4230>>, <<4237, 4237>>, <<4253, 4253>>, <<4348, 4348>>, <<4957, 4959>>,
     <<5906, 5908>>, <<5938, 5939>>, <<5970, 5971>>, <<6002, 6003>>, <<6068, 6069>>,
     <<6071, 6077>>, <<6086, 6086>>, <<6089, 6099>>, <<6103, 6103>>, <<6109, 6109>>,
     <<6155, 6159>>, <<6211, 6211>>, <<6277, 6278>>, <<6313, 6313>>, <<6432, 6434>>,
     <<6439, 6440>>, <<6450, 6450>>, <<6457, 6459>>, <<6679, 6680>>, <<6683, 6683>>,
     <<6742, 6742>>, <<6744, 6750>>, <<6752, 6752>>, <<6754, 6754>>, <<6757, 6764>>,
     <<6771, 6780>>, <<6783, 6783>>, <<6823, 6823>>, <<6832, 6862>>, <<6912, 6915>>,
     <<6964, 6964>>, <<6966, 6970>>, <<6972, 6972>>, <<6978, 6978>>, <<7019, 7027>>,
     <<7040, 7041>>, <<7074, 7077>>, <<7080, 7081>>, <<7083, 7085>>, <<7142, 7142>>,
     <<7144, 7145>>, <<7149, 7149>>, <<7151, 7153>>, <<7212, 7219>>, <<7222, 7223>>,
     <<7288, 7293>>, <<7376, 7378>>, <<7380, 7392>>, <<7394, 7400>>, <<7405, 7405>>,
     <<7412, 7412>>, <<7416, 7417>>, <<7468, 7530>>, <<7544, 7544>>, <<7579, 7679>>,
     <<8125, 8125>>, <<8127, 8129>>, <<8141, 8143>>, <<8157, 8159>>, <<8173, 8175>>,
     <<8189, 8190>>, <<8203, 8207>>, <<8216, 8217>>, <<8228, 8228>>, <<8231, 8231>>,
     <<8234, 8238>>, <<8288, 8292>>, <<8294, 8303>>, <<8305, 8305>>, <<8319, 8319>>,
     <<8336, 8348>>, <<8400, 8432>>, <<11388, 11389>>, <<11503, 11505>>,
     <<11631, 11631>>, <<11647, 11647>>, <<11744, 11775>>, <<11823, 11823>>,
     <<12293, 12293>>, <<12330, 12333>>, <<12337, 12341>>, <<12347, 12347>>,
     <<12441, 12446>>, <<12540, 12542>>, <<40981, 40981>>, <<42232, 42237>>,
     <<42508, 42508>>, <<42607, 42610>>, <<42612, 42621>>, <<42623, 42623>>,
     <<42652, 42655>>, <<42736, 42737>>, <<42752, 42785>>, <<42864, 42864>>,
     <<42888, 42890>>, <<42994, 42996>>, <<43000, 43001>>, <<43010, 43010>>,
     <<43014, 43014>>, <<43019, 43019>>, <<43045, 43046>>, <<43052, 43052>>,
     <<43204, 43205>>, <<43232, 43249>>, <<43263, 43263>>, <<43302, 43309>>,
     <<43335, 43345>>, <<43392, 43394>>, <<43443, 43443>>, <<43446, 43449>>,
     <<43452, 43453>>, <<43471, 43471>>, <<43493, 43494>>, <<43561, 43566>>,
     <<43569, 43570>>, <<43573, 43574>>, <<43587, 43587>>, <<43596, 43596>>,
     <<43632, 43632>>, <<43644, 43644>>, <<43696, 43696>>, <<43698, 43700>>,
     <<43703, 43704>>, <<43710, 43711>>, <<43713, 43713>>, <<43741, 43741>>,
     <<43756, 43757>>, <<43763, 43764>>, <<43766, 43766>>, <<43867, 43871>>,
     <<43881, 43883>>, <<44005, 44005>>, <<44008, 44008>>, <<44013, 44013>>,
     <<64286, 64286>>, <<64434, 64450>>, <<65024, 65039>>, <<65043, 65043>>,
     <<65056, 65071>>, <<65106, 65106>>, <<65109, 65109>>, <<65279, 65279>>,
     <<65287, 65287>>, <<65294, 65294>>, <<65306, 65306>>, <<65342, 65342>>,
     <<65344, 65344>>, <<65392, 65392>>, <<65438, 65439>>, <<65507, 65507>>,
     <<65529, 65531>>, <<66045, 66045>>, <<66272, 66272>>, <<66422, 66426>>,
     <<67456, 67461>>, <<67463, 67504>>, <<67506, 67514>>, <<68097, 68099>>,
     <<68101, 68102>>, <<68108, 68111>>, <<68152, 68154>>, <<68159, 68159>>,
     <<68325, 68326>>, <<68900, 68903>>, <<69291, 69292>>, <<69446, 69456>>,
     <<69506, 69509>>, <<69633, 69633>>, <<69688, 69702>>, <<69744, 69744>>,
     <<69747, 69748>>, <<69759, 69761>>, <<69811, 69814>>, <<69817, 69818>>,
     <<69821, 69821>>, <<69826, 69826>>, <<69837, 69837>>, <<69888, 69890>>,
     <<69927, 69931>>, <<69933, 69940>>, <<70003, 70003>>, <<70016, 70017>>,
     <<70070, 70078>>, <<70089, 70092>>, <<70095, 70095>>, <<70191, 70193>>,
     <<70196, 70196>>, <<70198, 70199>>, <<70206, 70206>>, <<70367, 70367>>,
     <<70371, 70378>>, <<70400, 70401>>, <<70459, 70460>>, <<70464, 70464>>,
     <<70502, 70508>>, <<70512, 70516>>, <<70712, 70719>>, <<70722, 70724>>,
     <<70726, 70726>>, <<70750, 70750>>, <<70835, 70840>>, <<70842, 70842>>,
     <<70847, 70848>>, <<70850, 70851>>, <<71090, 71093>>, <<71100, 71101>>,
     <<71103, 71104>>, <<71132, 71133>>, <<71219, 71226>>, <<71229, 71229>>,
     <<71231, 71232>>, <<71339, 71339>>, <<71341, 71341>>, <<71344, 71349>>,
     <<71351, 71351>>, <<71453, 71455>>, <<71458, 71461>>, <<71463, 71467>>,
     <<71727, 71735>>, <<71737, 71738>>, <<71995, 71996>>, <<71998, 71998>>,
     <<72003, 72003>>, <<72148, 72151>>, <<72154, 72155>>, <<72160, 72160>>,
     <<72193, 72202>>, <<72243, 72248>>, <<72251, 72254>>, <<72263, 72263>>,
     <<72273, 72278>>, <<72281, 72283>>, <<72330, 72342>>, <<72344, 72345>>,
     <<72752, 72758>>, <<72760, 72765>>, <<72767, 72767>>, <<72850, 72871>>,
     <<72874, 72880>>, <<72882, 72883>>, <<72885, 72886>>, <<73009, 73014>>,
     <<73018, 73018>>, <<73020, 73021>>, <<73023, 73029>>, <<73031, 73031>>,
     <<73104, 73105>>, <<73109, 73109>>, <<73111, 73111>>, <<73459, 73460>>,
     <<78896, 78904>>, <<92912, 92916>>, <<92976, 92982>>, <<92992, 92995>>,
     <<94031, 94031>>, <<94095, 94111>>, <<94176, 94177>>, <<94179, 94180>>,
     <<110576, 110579>>, <<110581, 110587>>, <<110589, 110590>>, <<113821, 113822>>,
     <<113824, 113827>>, <<118528, 118573>>, <<118576, 118598>>, <<119143, 119145>>,
     <<119155, 119170>>, <<119173, 119179>>, <<119210, 119213>>, <<119362, 119364>>,
     <<121344, 121398>>, <<121403, 121452>>, <<121461, 121461>>, <<121476, 121476>>,
     <<121499, 121503>>, <<121505, 121519>>, <<122880, 122886>>, <<122888, 122904>>,
     <<122907, 122913>>, <<122915, 122916>>, <<122918, 122922>>, <<123184, 123197>>,
     <<123566, 123566>>, <<123628, 123631>>, <<125136, 125142>>, <<125252, 125259>>,
     <<127995, 127999>>, <<917505, 917505>>, <<917536, 917631>>, <<917760, 917999>>}

InRanges(c, ranges) == \E r \in ranges : r[1] <= c /\ c <= r[2]

IsCased(c) == InRanges(c, CasedRanges)

IsCaseIgnorable(c) == InRanges(c, CaseIgnorableRanges)

\* the single character c lowers to, for c other than capital sigma and capital I
\* with dot above
LowerHits(c) == {r \in LowerRanges : r[1] <= c /\ c <= r[2] /\ (c - r[1]) % r[4] = 0}

LowerDelta(hits) == IF hits = {} THEN 0 ELSE (CHOOSE r \in hits : TRUE)[3]

ToLower(c) ==
    IF c < 128 THEN (IF 65 <= c /\ c <= 90 THEN c + 32 ELSE c)
    ELSE c + LowerDelta(LowerHits(c))

\* the nearest position from j down, or up, whose character is not case-ignorable
RECURSIVE SkipIgnorableDown(_, _)
SkipIgnorableDown(s, j) ==
    IF j >= 1 /\ IsCaseIgnorable(s[j]) THEN SkipIgnorableDown(s, j - 1) ELSE j

RECURSIVE SkipIgnorableUp(_, _)
SkipIgnorableUp(s, j) ==
    IF j <= Len(s) /\ IsCaseIgnorable(s[j]) THEN SkipIgnorableUp(s, j + 1) ELSE j

\* a capital sigma at position i is final when a cased character comes before it and
\* none after it, case-ignorable characters apart
final_sigma(s, before, after) ==
    /\ before >= 1
    /\ IsCased(s[before])
    /\ (after > Len(s) \/ ~IsCased(s[after]))

handle_capital_sigma(s, i) ==
    IF final_sigma(s, SkipIgnorableDown(s, i - 1), SkipIgnorableUp(s, i + 1)) THEN 962
    ELSE 963

\* the characters that replace the one at position k
LowerAt(s, k) ==
    IF s[k] = 931 THEN <<handle_capital_sigma(s, k)>>
    ELSE IF s[k] = 304 THEN <<105, 775>>
    ELSE <<ToLower(s[k])>>

\* str.lower
lower(s) == Flatten([k \in 1..Len(s) |-> LowerAt(s, k)])

(***************************************************************************)
(* utils.py: ADEvent                                                       *)
(***************************************************************************)
ADEvent(start, end, text, index) ==
    [start |-> start, end |-> end, text |-> text, index |-> index]

\* overlap_duration measuring the span of the two events, not their intersection
overlap_duration_Span(self, other) ==
    LET overlap_start == Min(self.start, other.start)
        overlap_end == Max(self.end, other.end)
    IN  Max(0, overlap_end - overlap_start)

\* ADEvent.overlap_duration
overlap_duration(self, other) ==
    LET overlap_start == Max(self.start, other.start)
        overlap_end == Min(self.end, other.end)
    IN  Max(0, overlap_end - overlap_start)

\* overlaps_with testing that the intervals meet, whatever min_overlap is
overlaps_with_Meet(self, other, min_overlap) ==
    LET overlap_start == Max(self.start, other.start)
        overlap_end == Min(self.end, other.end)
    IN  overlap_end >= overlap_start

\* overlaps_with keeping only overlaps strictly above min_overlap
overlaps_with_Strict(self, other, min_overlap) ==
    LET overlap_start == Max(self.start, other.start)
        overlap_end == Min(self.end, other.end)
        overlap == Max(0, overlap_end - overlap_start)
    IN  overlap * TimeDen > min_overlap

\* overlaps_with comparing the signed difference, without the clamp at 0
overlaps_with_Unclamped(self, other, min_overlap) ==
    LET overlap_start == Max(self.start, other.start)
        overlap_end == Min(self.end, other.end)
        overlap == overlap_end - overlap_start
    IN  overlap * TimeDen >= min_overlap

\* ADEvent.overlaps_with; min_overlap in half seconds
overlaps_with(self, other, min_overlap) ==
    LET overlap_start == Max(self.start, other.start)
        overlap_end == Min(self.end, other.end)
        overlap == Max(0, overlap_end - overlap_start)
    IN  overlap * TimeDen >= min_overlap

(***************************************************************************)
(* Python's sorted(events, key=lambda e: e.start): a stable sort.          *)
(***************************************************************************)
InsertByStart(s, e) ==
    LET p == Cardinality({k \in 1..Len(s) : s[k].start <= e.start})
    IN  SubSeq(s, 1, p) \o <<e>> \o SubSeq(s, p + 1, Len(s))

RECURSIVE SortedByStart(_)
SortedByStart(s) ==
    IF s = <<>> THEN <<>>
    ELSE InsertByStart(SortedByStart(SubSeq(s, 1, Len(s) - 1)), s[Len(s)])

MinStart(s) == CHOOSE v \in {s[k].start : k \in 1..Len(s)} :
                   \A k \in 1..Len(s) : v <= s[k].start
MaxEnd(s) == CHOOSE v \in {s[k].end : k \in 1..Len(s)} :
                 \A k \in 1..Len(s) : v >= s[k].end

Indices(s) == [k \in 1..Len(s) |-> s[k].index]

\* utils.combine_texts with the default separator
combine_texts(events) ==
    IF events = <<>> THEN <<>>
    ELSE LET sorted_events == SortedByStart(events)
         IN  join(Str(" "), [k \in 1..Len(sorted_events) |-> sorted_events[k].text])

(***************************************************************************)
(* utils.py: MatchedPair                                                   *)
(***************************************************************************)
MatchedPair(ge, re, gi, ri, gt, rt, gs, gend, rs, rend, m, mt, sc) ==
    [gen_events |-> ge, ref_events |-> re, gen_indices |-> gi, ref_indices |-> ri,
     combined_gen_text |-> gt, combined_ref_text |-> rt,
     gen_start |-> gs, gen_end |-> gend, ref_start |-> rs, ref_end |-> rend,
     matched |-> m, match_type |-> mt, score |-> sc]

(***************************************************************************)
(* matchers.py: UnionFind.  A structure is [parent, rank], both functions  *)
(* on 0..n-1.                                                              *)
(***************************************************************************)
\* UnionFind.__init__
UnionFind(n) == [parent |-> [x \in 0..(n - 1) |-> x], rank |-> [x \in 0..(n - 1) |-> 0]]

\* the value UnionFind.find returns
RECURSIVE FindRoot(_, _)
FindRoot(parent, x) == IF parent[x] # x THEN FindRoot(parent, parent[x]) ELSE parent[x]

\* the parent list UnionFind.find leaves behind (path compression)
RECURSIVE FindParent(_, _)
FindParent(parent, x) ==
    IF parent[x] # x
    THEN LET below == FindParent(parent, parent[x])
         IN  [below EXCEPT ![x] = FindRoot(parent, parent[x])]
    ELSE parent

\* UnionFind.find: the structure after the call
find(self, x) == [self EXCEPT !.parent = FindParent(self.parent, x)]

\* union linking x to y directly, without looking up their representatives
union_NoFind(self, x, y) == [self EXCEPT !.parent[x] = y]

\* union re-parenting the argument y itself, not its representative
union_LinkArgument(self, x, y) ==
    LET px == FindRoot(self.parent, x)
        afterx == find(self, x)
        py == FindRoot(afterx.parent, y)
        aftery == find(afterx, y)
    IN  IF px = py THEN aftery
        ELSE [aftery EXCEPT !.parent[y] = px]

\* UnionFind.union: the structure after the call
union(self, x, y) ==
    LET px0 == FindRoot(self.parent, x)
        afterx == find(self, x)
        py0 == FindRoot(afterx.parent, y)
        aftery == find(afterx, y)
        swap == aftery.rank[px0] < aftery.rank[py0]
        px == IF swap THEN py0 ELSE px0
        py == IF swap THEN px0 ELSE py0
    IN  IF px0 = py0 THEN aftery
        ELSE [parent |-> [aftery.parent EXCEPT ![py] = px],
              rank |-> IF aftery.rank[px] = aftery.rank[py]
                       THEN [aftery.rank EXCEPT ![px] = @ + 1]
                       ELSE aftery.rank]

(***************************************************************************)
(* matchers.py: ClusterMatcher.match                                       *)
(***************************************************************************)
\* lines 111-126: the unified event list, generated events first
UnifiedEvents(gen, ref) ==
    [k \in 1..Len(gen) |-> [event |-> gen[k], source |-> "generated"]]
    \o [k \in 1..Len(ref) |-> [event |-> ref[k], source |-> "reference"]]

\* the double loop calling overlaps_with without min_overlap_sec, i.e. with its default 0
RECURSIVE LinkOverlapping_DefaultMinimum(_, _, _, _, _)
LinkOverlapping_DefaultMinimum(u, events, min_overlap_sec, i, j) ==
    LET n == Len(events)
    IN  IF i >= n THEN u
        ELSE IF j >= n
        THEN LinkOverlapping_DefaultMinimum(u, events, min_overlap_sec, i + 1, i + 2)
        ELSE LET e1 == events[i + 1].event
                 e2 == events[j + 1].event
                 u2 == IF overlaps_with(e1, e2, 0) THEN union(u, i, j) ELSE u
             IN  LinkOverlapping_DefaultMinimum(u2, events, min_overlap_sec, i, j + 1)

\* lines 135-140: the double loop over i < j, from the pair (i, j) on
RECURSIVE LinkOverlapping(_, _, _, _, _)
LinkOverlapping(u, events, min_overlap_sec, i, j) ==
    LET n == Len(events)
    IN  IF i >= n THEN u
        ELSE IF j >= n THEN LinkOverlapping(u, events, min_overlap_sec, i + 1, i + 2)
        ELSE LET e1 == events[i + 1].event
                 e2 == events[j + 1].event
                 u2 == IF overlaps_with(e1, e2, min_overlap_sec) THEN union(u, i, j) ELSE u
             IN  LinkOverlapping(u2, events, min_overlap_sec, i, j + 1)

\* lines 144-145: uf.find(i) for i = from .. n-1, the structure afterwards
RECURSIVE FindAll(_, _, _)
FindAll(u, from, n) == IF from >= n THEN u ELSE FindAll(find(u, from), from + 1, n)

\* lines 143-148: the keys of the clusters dict, in insertion order
RECURSIVE ClusterRoots(_, _, _)
ClusterRoots(u, i, seen) ==
    IF i >= Cardinality(DOMAIN u.parent) THEN seen
    ELSE LET root == FindRoot(u.parent, i)
         IN  ClusterRoots(find(u, i), i + 1,
                          IF root \in Range(seen) THEN seen ELSE Append(seen, root))

\* clusters[root] re-created at every member: only the last member is kept
ClusterEvents_Reset(u, events, root) ==
    LET members == {k \in 1..Len(events) : FindRoot(u.parent, k - 1) = root}
        last == CHOOSE k \in members : \A l \in members : l <= k
    IN  <<events[last]>>

\* lines 143-148: clusters[root], the members in list order
ClusterEvents(u, events, root) ==
    LET member(k) == FindRoot(u.parent, k - 1) = root
        RECURSIVE Pick(_)
        Pick(k) == IF k > Len(events) THEN <<>>
                   ELSE (IF member(k) THEN <<events[k]>> ELSE <<>>) \o Pick(k + 1)
    IN  Pick(1)

EventsOfSource(cluster_events, source) ==
    LET RECURSIVE Pick(_)
        Pick(k) == IF k > Len(cluster_events) THEN <<>>
                   ELSE (IF cluster_events[k].source = source
                         THEN <<cluster_events[k].event>> ELSE <<>>) \o Pick(k + 1)
    IN  Pick(1)

\* lines 178-192
GeneratedOnlyPair(event) ==
    MatchedPair(<<event>>, <<>>, <<event.index>>, <<>>, event.text, <<>>,
                Some(event.start), Some(event.end), None, None,
                FALSE, "generated_only", None)

\* the reference-only record with the generated bounds filled in as well
ReferenceOnlyPair_GenBounds(event) ==
    MatchedPair(<<>>, <<event>>, <<>>, <<event.index>>, <<>>, event.text,
                Some(event.start), Some(event.end), Some(event.start), Some(event.end),
                FALSE, "reference_only", None)

\* lines 195-209
ReferenceOnlyPair(event) ==
    MatchedPair(<<>>, <<event>>, <<>>, <<event.index>>, <<>>, event.text,
                None, None, Some(event.start), Some(event.end),
                FALSE, "reference_only", None)

\* a single-origin cluster emitted as one unmatched record for the whole cluster
ClusterPairs_OnePerComponent(cluster_events) ==
    LET gen_in_cluster == EventsOfSource(cluster_events, "generated")
        ref_in_cluster == EventsOfSource(cluster_events, "reference")
        gen_sorted == SortedByStart(gen_in_cluster)
        ref_sorted == SortedByStart(ref_in_cluster)
    IN  IF gen_in_cluster # <<>> /\ ref_in_cluster # <<>>
        THEN <<MatchedPair(gen_sorted, ref_sorted,
                           Indices(gen_sorted), Indices(ref_sorted),
                           combine_texts(gen_sorted), combine_texts(ref_sorted),
                           Some(MinStart(gen_sorted)), Some(MaxEnd(gen_sorted)),
                           Some(MinStart(ref_sorted)), Some(MaxEnd(ref_sorted)),
                           TRUE, "cluster", None)>>
        ELSE IF gen_in_cluster # <<>>
        THEN <<MatchedPair(gen_sorted, <<>>, Indices(gen_sorted), <<>>,
                           combine_texts(gen_sorted), <<>>,
                           Some(MinStart(gen_sorted)), Some(MaxEnd(gen_sorted)), None, None,
                           FALSE, "generated_only", None)>>
        ELSE IF ref_in_cluster # <<>>
        THEN <<MatchedPair(<<>>, ref_sorted, <<>>, Indices(ref_sorted),
                           <<>>, combine_texts(ref_sorted),
                           None, None, Some(MinStart(ref_sorted)), Some(MaxEnd(ref_sorted)),
                           FALSE, "reference_only", None)>>
        ELSE <<>>

\* lines 153-209: the records one cluster appends
ClusterPairs(cluster_events) ==
    LET gen_in_cluster == EventsOfSource(cluster_events, "generated")
        ref_in_cluster == EventsOfSource(cluster_events, "reference")
    IN  IF gen_in_cluster # <<>> /\ ref_in_cluster # <<>>
        THEN LET gen_sorted == SortedByStart(gen_in_cluster)
                 ref_sorted == SortedByStart(ref_in_cluster)
             IN  <<MatchedPair(gen_sorted, ref_sorted,
                               Indices(gen_sorted), Indices(ref_sorted),
                               combine_texts(gen_sorted), combine_texts(ref_sorted),
                               Some(MinStart(gen_sorted)), Some(MaxEnd(gen_sorted)),
                               Some(MinStart(ref_sorted)), Some(MaxEnd(ref_sorted)),
                               TRUE, "cluster", None)>>
        ELSE IF gen_in_cluster # <<>>
        THEN [k \in 1..Len(gen_in_cluster) |-> GeneratedOnlyPair(gen_in_cluster[k])]
        ELSE IF ref_in_cluster # <<>>
        THEN [k \in 1..Len(ref_in_cluster) |-> ReferenceOnlyPair(ref_in_cluster[k])]
        ELSE <<>>

\* lines 212-217
sort_key(p) ==
    IF p.gen_start # None THEN <<p.gen_start[1], 0>>
    ELSE IF p.ref_start # None THEN <<p.ref_start[1], 1>>
    ELSE <<0, 2>>

\* Python's order on the key tuples
KeyLE(a, b) == a[1] < b[1] \/ (a[1] = b[1] /\ a[2] <= b[2])

InsertByKey(s, p) ==
    LET q == Cardinality({k \in 1..Len(s) : KeyLE(sort_key(s[k]), sort_key(p))})
    IN  SubSeq(s, 1, q) \o <<p>> \o SubSeq(s, q + 1, Len(s))

\* the records left in cluster order
SortedByKey_Unsorted(s) == s

\* line 219: matched_pairs.sort(key=sort_key), a stable sort
RECURSIVE SortedByKey(_)
SortedByKey(s) ==
    IF s = <<>> THEN <<>>
    ELSE InsertByKey(SortedByKey(SubSeq(s, 1, Len(s) - 1)), s[Len(s)])

\* lines 132-140: the structure after the pairwise scan
ClusterLinks(gen, ref, min_overlap_sec) ==
    LET events == UnifiedEvents(gen, ref)
    IN  LinkOverlapping(UnionFind(Len(events)), events, min_overlap_sec, 0, 1)

\* an early return as soon as either input is empty
ClusterEmptyInput_Either(gen, ref) == gen = <<>> \/ ref = <<>>

\* lines 128-130: n == 0
ClusterEmptyInput(gen, ref) == Len(UnifiedEvents(gen, ref)) = 0

\* ClusterMatcher.match: the returned list and the local structure at return
ClusterMatcher_match(gen, ref, min_overlap_sec) ==
    LET events == UnifiedEvents(gen, ref)
        n == Len(events)
        linked == ClusterLinks(gen, ref, min_overlap_sec)
        roots == ClusterRoots(linked, 0, <<>>)
        grouped == FindAll(linked, 0, n)
        unsorted == Flatten([c \in 1..Len(roots) |->
                                ClusterPairs(ClusterEvents(grouped, events, roots[c]))])
    IN  IF ClusterEmptyInput(gen, ref) THEN [pairs |-> <<>>, uf |-> None]
        ELSE [pairs |-> SortedByKey(unsorted), uf |-> Some(grouped)]

(***************************************************************************)
(* matchers.py: OverlapMatcher.match                                       *)
(***************************************************************************)
\* the scan keeping only overlaps strictly above min_overlap_sec
Overlapping_Strict(gen_event, ref, min_overlap_sec) ==
    LET RECURSIVE Scan(_)
        Scan(k) ==
            IF k > Len(ref) THEN <<>>
            ELSE LET overlap == overlap_duration(gen_event, ref[k])
                 IN  (IF overlap * TimeDen > min_overlap_sec
                      THEN <<<<ref[k], overlap>>>> ELSE <<>>) \o Scan(k + 1)
    IN  Scan(1)

\* lines 259-263: the (ref_event, overlap) tuples kept for one generated event
Overlapping(gen_event, ref, min_overlap_sec) ==
    LET RECURSIVE Scan(_)
        Scan(k) ==
            IF k > Len(ref) THEN <<>>
            ELSE LET overlap == overlap_duration(gen_event, ref[k])
                 IN  (IF overlap * TimeDen >= min_overlap_sec
                      THEN <<<<ref[k], overlap>>>> ELSE <<>>) \o Scan(k + 1)
    IN  Scan(1)

\* an insertion that puts an entry before the entries of equal overlap
InsertByOverlap_BeforeEqual(s, x) ==
    LET q == Cardinality({k \in 1..Len(s) : -s[k][2] < -x[2]})
    IN  SubSeq(s, 1, q) \o <<x>> \o SubSeq(s, q + 1, Len(s))

InsertByOverlap(s, x) ==
    LET q == Cardinality({k \in 1..Len(s) : -s[k][2] <= -x[2]})
    IN  SubSeq(s, 1, q) \o <<x>> \o SubSeq(s, q + 1, Len(s))

\* line 267: overlapping.sort(key=lambda x: -x[1]), a stable sort
RECURSIVE SortedByOverlap(_)
SortedByOverlap(s) ==
    IF s = <<>> THEN <<>>
    ELSE InsertByOverlap(SortedByOverlap(SubSeq(s, 1, Len(s) - 1)), s[Len(s)])

\* lines 257-299: the record appended for one generated event
OverlapPair(gen_event, ref, min_overlap_sec) ==
    LET overlapping == Overlapping(gen_event, ref, min_overlap_sec)
        sorted == SortedByOverlap(overlapping)
        ref_sorted == [k \in 1..Len(sorted) |-> sorted[k][1]]
    IN  IF overlapping # <<>>
        THEN MatchedPair(<<gen_event>>, ref_sorted,
                         <<gen_event.index>>, Indices(ref_sorted),
                         gen_event.text, combine_texts(ref_sorted),
                         Some(gen_event.start), Some(gen_event.end),
                         Some(MinStart(ref_sorted)), Some(MaxEnd(ref_sorted)),
                         TRUE, "overlap", None)
        ELSE MatchedPair(<<gen_event>>, <<>>, <<gen_event.index>>, <<>>,
                         gen_event.text, <<>>,
                         Some(gen_event.start), Some(gen_event.end), None, None,
                         FALSE, "no_overlap", None)

\* the generated-event records followed by a reference-only record for every
\* reference event that no generated event claimed
OverlapMatcher_match_ReferenceOnly(gen, ref, min_overlap_sec) ==
    LET records == [k \in 1..Len(gen) |-> OverlapPair(gen[k], ref, min_overlap_sec)]
        claimed == UNION {Range(records[k].ref_events) : k \in 1..Len(records)}
        RECURSIVE Rest(_)
        Rest(l) == IF l > Len(ref) THEN <<>>
                   ELSE (IF ref[l] \in claimed THEN <<>> ELSE <<ReferenceOnlyPair(ref[l])>>)
                        \o Rest(l + 1)
    IN  records \o Rest(1)

\* OverlapMatcher.match
OverlapMatcher_match(gen, ref, min_overlap_sec) ==
    [k \in 1..Len(gen) |-> OverlapPair(gen[k], ref, min_overlap_sec)]

(***************************************************************************)
(* Python floats.  A float is an IEEE 754 double: the record               *)
(* [neg, m, e] stands for (-1)^neg * m * 2^e, with m a natural number of   *)
(* at most 53 bits, odd unless the value is 0.  m is kept as the sequence  *)
(* of its digits in base BigBase, least significant first, so that no      *)
(* intermediate value leaves the 32-bit integers.  The operations compute  *)
(* the exact result and round it once, to nearest, ties to even, as the    *)
(* hardware does, down to the subnormal numbers.  A result beyond the      *)
(* largest double is an infinity and raises nothing (+ - * / of Python     *)
(* floats and of numpy float64); FloatInf, the record of 2^1024, stands    *)
(* for inf and FloatNeg(FloatInf) for -inf.  A result that is not a number *)
(* (inf - inf, inf * 0, inf / inf) is FloatNaN, the record of the bit      *)
(* pattern 0x7ff8000000000000 read as a number; the sign of a NaN and the  *)
(* sign of a zero are not kept (0.0 == -0.0 in Python).                    *)
(***************************************************************************)
BigBase == 32768
LimbBits == 15
Precision == 53
MinExponent == -1074

Limb(a, k) == IF k <= Len(a) THEN a[k] ELSE 0

RECURSIVE BigTrim(_)
BigTrim(a) ==
    IF a = <<>> THEN <<>>
    ELSE IF a[Len(a)] = 0 THEN BigTrim(SubSeq(a, 1, Len(a) - 1))
    ELSE a

RECURSIVE BigFromInt(_)
BigFromInt(n) == IF n = 0 THEN <<>> ELSE <<n % BigBase>> \o BigFromInt(n \div BigBase)

RECURSIVE BigAddFrom(_, _, _, _)
BigAddFrom(a, b, k, carry) ==
    IF k > Len(a) /\ k > Len(b) THEN (IF carry = 0 THEN <<>> ELSE <<carry>>)
    ELSE LET x == Limb(a, k) + Limb(b, k) + carry
         IN  <<x % BigBase>> \o BigAddFrom(a, b, k + 1, x \div BigBase)

BigAdd(a, b) == BigAddFrom(a, b, 1, 0)

\* a - b for a >= b
RECURSIVE BigSubFrom(_, _, _, _)
BigSubFrom(a, b, k, borrow) ==
    IF k > Len(a) THEN <<>>
    ELSE LET x == a[k] - Limb(b, k) - borrow
         IN  <<x % BigBase>> \o BigSubFrom(a, b, k + 1, IF x < 0 THEN 1 ELSE 0)

BigSub(a, b) == BigTrim(BigSubFrom(a, b, 1, 0))

RECURSIVE BigCmpFrom(_, _, _)
BigCmpFrom(a, b, k) ==
    IF k = 0 THEN 0
    ELSE IF a[k] > b[k] THEN 1
    ELSE IF a[k] < b[k] THEN -1
    ELSE BigCmpFrom(a, b, k - 1)

\* 1, 0 or -1 as a is greater than, equal to or less than b
BigCmp(a, b) ==
    IF Len(a) > Len(b) THEN 1
    ELSE IF Len(a) < Len(b) THEN -1
    ELSE BigCmpFrom(a, b, Len(a))

\* a * f for 0 <= f < BigBase
RECURSIVE BigMulSmallFrom(_, _, _, _)
BigMulSmallFrom(a, f, k, carry) ==
    IF k > Len(a) THEN (IF carry = 0 THEN <<>> ELSE <<carry>>)
    ELSE LET x == a[k] * f + carry
         IN  <<x % BigBase>> \o BigMulSmallFrom(a, f, k + 1, x \div BigBase)

BigMulSmall(a, f) == IF f = 0 THEN <<>> ELSE BigMulSmallFrom(a, f, 1, 0)

BigShiftLimbs(a, q) == IF a = <<>> THEN <<>> ELSE [k \in 1..q |-> 0] \o a

\* a * b, one digit of b at a time from the highest: st.k digits are left, st.acc is a
\* times the digits above them
RECURSIVE BigMulFrom(_, _, _)
BigMulFrom(a, b, st) ==
    IF st.k = 0 THEN st.acc
    ELSE BigMulFrom(a, b, [k |-> st.k - 1,
                           acc |-> BigAdd(BigMulSmall(a, b[st.k]),
                                          BigShiftLimbs(st.acc, 1))])

BigMul(a, b) == IF a = <<>> THEN <<>> ELSE BigMulFrom(a, b, [k |-> Len(b), acc |-> <<>>])

\* quotient and remainder of a by d, for 0 < d < 2 * BigBase
RECURSIVE BigDivSmallFrom(_, _, _, _, _)
BigDivSmallFrom(a, d, k, r, q) ==
    IF k = 0 THEN [q |-> BigTrim(q), r |-> r]
    ELSE LET x == r * BigBase + a[k]
         IN  BigDivSmallFrom(a, d, k - 1, x % d, <<x \div d>> \o q)

BigDivSmall(a, d) == BigDivSmallFrom(a, d, Len(a), 0, <<>>)

\* a * 2^s and the whole part of a / 2^s
BigShl(a, s) ==
    IF s = 0 THEN a
    ELSE BigShiftLimbs(BigMulSmall(a, 2^(s % LimbBits)), s \div LimbBits)

BigShr(a, s) ==
    IF s = 0 THEN a
    ELSE IF s \div LimbBits >= Len(a) THEN <<>>
    ELSE BigDivSmall(SubSeq(a, s \div LimbBits + 1, Len(a)), 2^(s % LimbBits)).q

\* bit s of a, bit 0 being the lowest
BigBit(a, s) == (Limb(a, s \div LimbBits + 1) \div 2^(s % LimbBits)) % 2

\* a is a multiple of 2^s
BigLowZero(a, s) ==
    /\ \A k \in 1..(s \div LimbBits) : Limb(a, k) = 0
    /\ Limb(a, s \div LimbBits + 1) % 2^(s % LimbBits) = 0

\* the number of binary digits of one limb
IntBitLen(n) == IF n = 0 THEN 0 ELSE CHOOSE s \in 1..LimbBits : 2^(s - 1) <= n /\ n < 2^s

BigBitLen(a) == IF a = <<>> THEN 0 ELSE LimbBits * (Len(a) - 1) + IntBitLen(a[Len(a)])

\* the number of zero bits below the lowest set bit of a, a not zero
LimbTrailingZeros(limb) ==
    CHOOSE s \in 0..(LimbBits - 1) : limb % 2^(s + 1) # 0 /\ limb % 2^s = 0

\* the place of the lowest digit of a that is not 0
BigLowestLimb(a) == CHOOSE k \in 1..Len(a) : a[k] # 0 /\ \A l \in 1..(k - 1) : a[l] = 0

BigTrailingZeros(a) ==
    LimbBits * (BigLowestLimb(a) - 1) + LimbTrailingZeros(a[BigLowestLimb(a)])

FloatZero == [neg |-> FALSE, m |-> <<>>, e |-> 0]

\* float('inf'): the exponent field 2047 with the fraction 0
FloatInf == [neg |-> FALSE, m |-> <<1>>, e |-> 1024]

\* float('nan'): the exponent field 2047 with the leading bit of the fraction
FloatNaN == [neg |-> FALSE, m |-> <<3>>, e |-> 1023]

\* math.isinf and math.isnan: no double has an exponent as high
IsInf(x) == x.e = 1024

IsNaN(x) == x.e = 1023 /\ x.m = <<3>>

\* the float of an exactly representable magnitude big * 2^e
FloatShifted(neg, big, e, tz) == [neg |-> neg, m |-> BigShr(big, tz), e |-> e + tz]

FloatExact(neg, big, e) ==
    IF big = <<>> THEN FloatZero ELSE FloatShifted(neg, big, e, BigTrailingZeros(big))

\* round to nearest, ties to even: the float nearest to big * 2^e, or, with sticky, to
\* a magnitude strictly between big * 2^e and (big + 1) * 2^e
RoundsUp(big, s, sticky) ==
    /\ BigBit(big, s - 1) = 1
    /\ (sticky \/ ~BigLowZero(big, s - 1) \/ BigBit(big, s) = 1)

\* the rounding that drops the s low bits of big
FloatRoundAt(neg, big, e, sticky, s) ==
    FloatExact(neg,
               IF s <= 0 THEN big
               ELSE IF RoundsUp(big, s, sticky) THEN BigAdd(BigShr(big, s), <<1>>)
               ELSE BigShr(big, s),
               e + Max(s, 0))

\* a rounded magnitude of 2^1024 or more is an infinity
FloatOverflowed(x) ==
    IF x.e + LimbBits * Len(x.m) > 1024 /\ x.e + BigBitLen(x.m) > 1024
    THEN [neg |-> x.neg, m |-> <<1>>, e |-> 1024]
    ELSE x

FloatRound(neg, big, e, sticky) ==
    FloatOverflowed(FloatRoundAt(neg, big, e, sticky,
                                 Max(BigBitLen(big) - Precision, MinExponent - e)))

Abs(n) == IF n < 0 THEN -n ELSE n

\* float(n)
FloatFromInt(n) == FloatExact(n < 0, BigFromInt(Abs(n)), 0)

\* -x
FloatNeg(x) == IF x.m = <<>> \/ IsNaN(x) THEN x ELSE [x EXCEPT !.neg = ~x.neg]

\* the float nearest to (-1)^xneg * sa * 2^e + (-1)^yneg * sb * 2^e
FloatSumAligned(xneg, sa, yneg, sb, e) ==
    FloatRound(IF xneg = yneg \/ BigCmp(sa, sb) >= 0 THEN xneg ELSE yneg,
               IF xneg = yneg THEN BigAdd(sa, sb)
               ELSE IF BigCmp(sa, sb) >= 0 THEN BigSub(sa, sb)
               ELSE BigSub(sb, sa),
               e, FALSE)

\* the float nearest to (-1)^neg * a * 2^e plus a number of sign other whose magnitude
\* is below 2^(e - Precision - 3): it only decides on which side of a * 2^e the sum lies
FloatSumFar(neg, a, e, other) ==
    FloatRound(neg,
               IF neg = other THEN BigShl(a, Precision + 3)
               ELSE BigSub(BigShl(a, Precision + 3), <<1>>),
               e - (Precision + 3), TRUE)

\* the float nearest to the sum of (-1)^xneg * a * 2^ea and (-1)^yneg * b * 2^eb
FloatSum(xneg, a, ea, yneg, b, eb) ==
    IF a = <<>> \/ b = <<>>
    THEN FloatRound(IF a = <<>> THEN yneg ELSE xneg, IF a = <<>> THEN b ELSE a,
                    IF a = <<>> THEN eb ELSE ea, FALSE)
    ELSE IF eb + BigBitLen(b) <= ea - (Precision + 3) THEN FloatSumFar(xneg, a, ea, yneg)
    ELSE IF ea + BigBitLen(a) <= eb - (Precision + 3) THEN FloatSumFar(yneg, b, eb, xneg)
    ELSE FloatSumAligned(xneg, BigShl(a, ea - Min(ea, eb)),
                         yneg, BigShl(b, eb - Min(ea, eb)), Min(ea, eb))

\* x + y: inf + -inf is nan, and an infinity plus a number is that infinity
FloatAdd(x, y) ==
    IF IsNaN(x) \/ IsNaN(y) THEN FloatNaN
    ELSE IF IsInf(x) THEN (IF IsInf(y) /\ x.neg # y.neg THEN FloatNaN ELSE x)
    ELSE IF IsInf(y) THEN y
    ELSE FloatSum(x.neg, x.m, x.e, y.neg, y.m, y.e)

\* x - y
FloatSub(x, y) == FloatAdd(x, FloatNeg(y))

\* x * y: inf * 0 is nan
FloatMul(x, y) ==
    IF IsNaN(x) \/ IsNaN(y) THEN FloatNaN
    ELSE IF IsInf(x) \/ IsInf(y)
    THEN (IF x.m = <<>> \/ y.m = <<>> THEN FloatNaN
          ELSE [neg |-> x.neg # y.neg, m |-> <<1>>, e |-> 1024])
    ELSE IF x.m = <<>> \/ y.m = <<>> THEN FloatZero
    ELSE FloatRound(x.neg # y.neg, BigMul(x.m, y.m), x.e + y.e, FALSE)

\* x * y + z rounded once: the fused multiply-add of the processor
FloatFma(x, y, z) ==
    IF IsNaN(x) \/ IsNaN(y) \/ IsInf(x) \/ IsInf(y) THEN FloatAdd(FloatMul(x, y), z)
    ELSE IF IsNaN(z) \/ IsInf(z) THEN z
    ELSE IF x.m = <<>> \/ y.m = <<>> THEN z
    ELSE FloatSum(x.neg # y.neg, BigMul(x.m, y.m), x.e + y.e, z.neg, z.m, z.e)

\* the digit of the quotient of x by d, for x < d * BigBase and d with its leading digit
\* at least BigBase / 2: the estimate from the leading digits is at most 2 too large
RECURSIVE BigDivCorrect(_, _, _)
BigDivCorrect(x, d, digit) ==
    IF BigCmp(BigMulSmall(d, digit), x) > 0 THEN BigDivCorrect(x, d, digit - 1) ELSE digit

BigDivDigit(x, d) ==
    BigDivCorrect(x, d, Min(BigBase - 1,
                            (Limb(x, Len(d) + 1) * BigBase + Limb(x, Len(d))) \div d[Len(d)]))

\* long division of a by d from digit k of a down: r is the remainder and q the quotient
\* of the digits above k.  BigDivStep takes the digit of the quotient at k from x, the
\* remainder with digit k of a brought down.
RECURSIVE BigDivFrom(_, _, _, _, _)
RECURSIVE BigDivStep(_, _, _, _, _, _)
BigDivStep(a, d, k, x, q, digit) ==
    BigDivFrom(a, d, k - 1, BigSub(x, BigMulSmall(d, digit)), <<digit>> \o q)

BigDivBrought(a, d, k, x, q) == BigDivStep(a, d, k, x, q, BigDivDigit(x, d))

BigDivFrom(a, d, k, r, q) ==
    IF k = 0 THEN [q |-> BigTrim(q), r |-> r]
    ELSE BigDivBrought(a, d, k, BigTrim(<<a[k]>> \o r), q)

BigDivAll(a, d) == BigDivFrom(a, d, Len(a), <<>>, <<>>)

\* the quotient of a by b with both multiplied by 2^s, which makes the leading digit of
\* the divisor at least BigBase / 2
BigDivScaled(a, b, s) == BigDivAll(BigShl(a, s), BigShl(b, s))

\* the quotient of a by b and whether the division leaves a remainder, b not 0
BigDivExact(qr) == [q |-> qr.q, exact |-> qr.r = <<>>]

BigDivMod(a, b) ==
    IF Len(b) = 1 THEN [q |-> BigDivSmall(a, b[1]).q, exact |-> BigDivSmall(a, b[1]).r = 0]
    ELSE BigDivExact(BigDivScaled(a, b, LimbBits - IntBitLen(b[Len(b)])))

\* x / y from the quotient of x.m * 2^s by y.m
FloatQuotRounded(x, y, s, qr) == FloatRound(x.neg # y.neg, qr.q, x.e - y.e - s, ~qr.exact)

FloatQuotAt(x, y, s) == FloatQuotRounded(x, y, s, BigDivMod(BigShl(x.m, s), y.m))

\* x / y for y not 0: two bits of quotient more than the precision before the rounding;
\* inf / inf is nan and a number divided by an infinity is 0
FloatQuot(x, y) ==
    IF IsNaN(x) \/ IsNaN(y) THEN FloatNaN
    ELSE IF IsInf(x)
    THEN (IF IsInf(y) THEN FloatNaN ELSE [neg |-> x.neg # y.neg, m |-> <<1>>, e |-> 1024])
    ELSE IF IsInf(y) \/ x.m = <<>> THEN FloatZero
    ELSE FloatQuotAt(x, y, Max(0, Precision + 2 + BigBitLen(y.m) - BigBitLen(x.m)))

\* n / d for whole numbers n and d, d not 0; the quotients of the small numbers that
\* the durations and the token counts of most inputs explored give are evaluated once
Quotients ==
    {<<n, d, FloatQuot(FloatFromInt(n), FloatFromInt(d))>> :
        n \in 0..(2 * MaxTime), d \in 1..(2 * MaxTime)}

FloatDiv(n, d) ==
    IF n \in 0..(2 * MaxTime) /\ d \in 1..(2 * MaxTime)
    THEN (CHOOSE p \in Quotients : p[1] = n /\ p[2] = d)[3]
    ELSE FloatQuot(FloatFromInt(n), FloatFromInt(d))

\* the position of the leading bit of a float that is not 0: its magnitude is at least
\* 2^(FloatTop - 1) and less than 2^FloatTop
FloatTop(x) == x.e + BigBitLen(x.m)

\* |x| > |y| for floats that are not 0
FloatAbsGt(x, y) ==
    IF FloatTop(x) # FloatTop(y) THEN FloatTop(x) > FloatTop(y)
    ELSE LET e == Min(x.e, y.e)
         IN  BigCmp(BigShl(x.m, x.e - e), BigShl(y.m, y.e - e)) > 0

\* x > y: no comparison with nan holds
FloatGt(x, y) ==
    IF IsNaN(x) \/ IsNaN(y) THEN FALSE
    ELSE IF x.m = <<>> THEN y.m # <<>> /\ y.neg
    ELSE IF y.m = <<>> THEN ~x.neg
    ELSE IF x.neg # y.neg THEN y.neg
    ELSE IF x.neg THEN FloatAbsGt(y, x)
    ELSE FloatAbsGt(x, y)

\* x >= y
FloatGe(x, y) == ~IsNaN(x) /\ ~IsNaN(y) /\ ~FloatGt(y, x)

(***************************************************************************)
(* The representation of a float: asuint64 gives the 64 bits of a double   *)
(* as a number (in digits of base BigBase), asdouble the double of 64      *)
(* bits.  The exponent field 2047 is that of the infinities and of nan.    *)
(***************************************************************************)
\* the low s bits of a
BigLow(a, s) ==
    BigTrim([k \in 1..Min(Len(a), (s + LimbBits - 1) \div LimbBits) |->
                IF k * LimbBits <= s THEN a[k] ELSE a[k] % 2^(s - (k - 1) * LimbBits)])

\* a number below BigBase^2 as an integer
BigToInt(a) == Limb(a, 1) + BigBase * Limb(a, 2)

\* the bits of the exponent and the fraction of x, whose leading bit is at top
Uint64Magnitude(x, top) ==
    IF top <= MinExponent + Precision - 1 THEN BigShl(x.m, x.e - MinExponent)
    ELSE BigAdd(BigShl(BigFromInt(top - MinExponent - Precision), 52),
                BigShl(x.m, x.e - (top - Precision)))

asuint64(x) ==
    IF x.m = <<>> THEN <<>>
    ELSE BigAdd(IF x.neg THEN BigShl(<<1>>, 63) ELSE <<>>, Uint64Magnitude(x, FloatTop(x)))

\* the double of sign and exponent field high and fraction field low
DoubleOfFields(high, low) ==
    FloatExact(high >= 2048,
               IF high % 2048 = 0 THEN low ELSE BigAdd(low, BigShl(<<1>>, 52)),
               IF high % 2048 = 0 THEN MinExponent ELSE (high % 2048) - 1 + MinExponent)

asdouble(bits) == DoubleOfFields(BigToInt(BigShr(bits, 52)), BigLow(bits, 52))

\* a + b in 64 bits
Uint64Add(a, b) == BigLow(BigAdd(a, b), 64)

\* a << s in 64 bits
Uint64Shl(a, s) == BigLow(BigShl(a, s), 64)

(***************************************************************************)
(* math.exp(x): the exp of the C library the interpreter is linked with    *)
(* (glibc 2.36, x86-64, the variant for processors with fused              *)
(* multiply-add).  With N = 128: k = round(x * N / ln 2),                  *)
(* r = x - k ln 2 / N in two steps, exp(x) = 2^(k / N) * exp(r), where     *)
(* 2^((k % N) / N) comes                                                   *)
(* from the table ExpTab and exp(r) - 1 from a polynomial of degree 5.     *)
(* ExpTab holds for each j < N the bits of the tail of 2^(j / N) and the   *)
(* bits of 2^(j / N) less j << 45.                                         *)
(***************************************************************************)
\* 0x1.71547652b82fep+7
InvLn2N == [neg |-> FALSE, m |-> <<16767, 25899, 10894, 92>>, e |-> -44]

\* 0x1.8000000000000p+52
Shift == [neg |-> FALSE, m |-> <<3>>, e |-> 51]

\* -0x1.62e42fefa0000p-8
NegLn2hiN == [neg |-> TRUE, m |-> <<32637, 11842, 44>>, e |-> -43]

\* -0x1.cf79abc9e3b3ap-47
NegLn2loN == [neg |-> TRUE, m |-> <<7581, 15518, 28469, 115>>, e |-> -98]

\* 0x1.ffffffffffdbdp-2
ExpC2 == [neg |-> FALSE, m |-> <<32189, 32767, 32767, 255>>, e |-> -54]

\* 0x1.555555555543cp-3
ExpC3 == [neg |-> FALSE, m |-> <<21775, 10922, 21845, 42>>, e |-> -53]

\* 0x1.55555cf172b91p-5
ExpC4 == [neg |-> FALSE, m |-> <<11153, 7726, 21847, 170>>, e |-> -57]

\* 0x1.1111167a4d017p-7
ExpC5 == [neg |-> FALSE, m |-> <<20503, 20297, 17477, 136>>, e |-> -59]

ExpTab ==
  <<<<>>, <<0, 0, 0, 32640, 3>>,
     <<16238, 13585, 27964, 25817, 3>>, <<13109, 21494, 22774, 32639, 3>>,
     <<23645, 14769, 78, 25483, 11>>, <<97, 31983, 12904, 32639, 3>>,
     <<26321, 8462, 31208, 25730, 11>>, <<32645, 20700, 3159, 32639, 3>>,
     <<30227, 27343, 18760, 25702, 3>>, <<1396, 9771, 26307, 32638, 3>>,
     <<3834, 18419, 14848, 25694, 11>>, <<30430, 21435, 16812, 32638, 3>>,
     <<18529, 17357, 23865, 25351, 3>>, <<7112, 12523, 7444, 32638, 3>>,
     <<21401, 13927, 3985, 25733, 3>>, <<29571, 5517, 30971, 32637, 3>>,
     <<31597, 15110, 27289, 25788, 3>>, <<2319, 23027, 21857, 32637, 3>>,
     <<28668, 9723, 21610, 25717, 3>>, <<18423, 22244, 12872, 32637, 3>>,
     <<7377, 24671, 30965, 25077, 3>>, <<20898, 26023, 4016, 32637, 3>>,
     <<28171, 4896, 3282, 25424, 11>>, <<21275, 24573, 28058, 32636, 3>>,
     <<15630, 21599, 22856, 25770, 11>>, <<23377, 8228, 19463, 32636, 3>>,
     <<27221, 6301, 958, 25220, 11>>, <<12748, 216, 10999, 32636, 3>>,
     <<29718, 29611, 9358, 25742, 11>>, <<11744, 23890, 2666, 32636, 3>>,
     <<21935, 21176, 20367, 25606, 3>>, <<3665, 4427, 27235, 32635, 3>>,
     <<4936, 21835, 27735, 25600, 11>>, <<20859, 30970, 19168, 32635, 3>>,
     <<12861, 11196, 32705, 25720, 11>>, <<3562, 28953, 11236, 32635, 3>>,
     <<21439, 32294, 9776, 25692, 3>>, <<19317, 22239, 3439, 32635, 3>>,
     <<27430, 27683, 26225, 25782, 11>>, <<23764, 2056, 28546, 32634, 3>>,
     <<12128, 31860, 13276, 25815, 3>>, <<14762, 25297, 21020, 32634, 3>>,
     <<14493, 5900, 7691, 25727, 11>>, <<22813, 17913, 13632, 32634, 3>>,
     <<17293, 2381, 15621, 25683, 3>>, <<3286, 4293, 6382, 32634, 3>>,
     <<1149, 25032, 26646, 25603, 3>>, <<23702, 8955, 32038, 32633, 3>>,
     <<10388, 18257, 15351, 25780, 3>>, <<25144, 23786, 25065, 32633, 3>>,
     <<18557, 25832, 30819, 25658, 3>>, <<9791, 8037, 18233, 32633, 3>>,
     <<26610, 12351, 7342, 25602, 3>>, <<31965, 19396, 11541, 32633, 3>>,
     <<2142, 32482, 25068, 25781, 11>>, <<25473, 17386, 4991, 32633, 3>>,
     <<11057, 23059, 24453, 25623, 3>>, <<24289, 27199, 31351, 32632, 3>>,
     <<16378, 13535, 1644, 25065, 11>>, <<22928, 8629, 25087, 32632, 3>>,
     <<2740, 25624, 24073, 25689, 3>>, <<779, 19912, 18966, 32632, 3>>,
     <<19343, 5021, 21066, 25456, 3>>, <<12118, 21116, 12990, 32632, 3>>,
     <<11190, 7009, 13781, 25626, 3>>, <<14101, 5219, 7160, 32632, 3>>,
     <<29772, 17752, 2055, 25650, 3>>, <<22577, 30873, 1475, 32632, 3>>,
     <<30794, 15271, 29925, 25726, 3>>, <<5887, 25800, 28706, 32631, 3>>,
     <<23300, 30492, 3584, 25653, 11>>, <<8177, 16165, 23317, 32631, 3>>,
     <<20584, 6294, 11191, 25746, 11>>, <<10699, 28277, 18076, 32631, 3>>,
     <<11662, 13986, 8160, 25800, 11>>, <<22630, 23051, 12985, 32631, 3>>,
     <<14034, 32040, 18336, 25486, 11>>, <<8183, 27083, 8044, 32631, 3>>,
     <<6933, 26524, 25702, 25800, 11>>, <<10469, 1575, 3255, 32631, 3>>,
     <<19565, 20052, 32034, 25644, 3>>, <<13346, 6180, 31385, 32630, 3>>,
     <<27018, 29776, 18817, 25752, 11>>, <<28, 2393, 26900, 32630, 3>>,
     <<2395, 4143, 7741, 25285, 11>>, <<11818, 17390, 22568, 32630, 3>>,
     <<6683, 20115, 12909, 25569, 11>>, <<10391, 12961, 18391, 32630, 3>>,
     <<11281, 16773, 4021, 25115, 3>>, <<2349, 16579, 14369, 32630, 3>>,
     <<25839, 30220, 6180, 25779, 3>>, <<87, 23098, 10503, 32630, 3>>,
     <<889, 13634, 13191, 25462, 3>>, <<15568, 27522, 6794, 32630, 3>>,
     <<4656, 32286, 32312, 25759, 3>>, <<21470, 25007, 3243, 32630, 3>>,
     <<12208, 30453, 17210, 25524, 3>>, <<10791, 10860, 32619, 32629, 3>>,
     <<24695, 22185, 30455, 25752, 3>>, <<23821, 13307, 29386, 32629, 3>>,
     <<9102, 227, 20688, 25724, 11>>, <<11431, 27962, 26313, 32629, 3>>,
     <<9033, 14631, 31539, 25662, 11>>, <<26178, 17822, 23402, 32629, 3>>,
     <<14431, 31262, 31514, 25542, 11>>, <<20354, 11578, 20653, 32629, 3>>,
     <<23798, 22774, 18715, 25648, 11>>, <<4623, 5307, 18067, 32629, 3>>,
     <<22414, 12795, 21524, 25753, 3>>, <<10202, 28010, 15644, 32629, 3>>,
     <<6917, 24341, 25308, 25564, 3>>, <<18429, 10543, 13387, 32629, 3>>,
     <<21513, 17464, 3975, 25731, 3>>, <<21545, 14992, 11295, 32629, 3>>,
     <<18154, 8243, 7701, 24998, 3>>, <<18103, 5298, 9370, 32629, 3>>,
     <<16437, 22217, 19352, 25761, 3>>, <<8520, 11098, 7612, 32629, 3>>,
     <<30367, 17202, 4393, 25703, 11>>, <<23561, 29421, 6022, 32629, 3>>,
     <<19880, 30686, 20244, 25697, 11>>, <<21893, 24692, 4602, 32629, 3>>,
     <<27054, 4695, 19938, 25634, 11>>, <<17184, 27033, 3352, 32629, 3>>,
     <<22616, 28844, 15221, 25758, 11>>, <<8741, 1194, 2274, 32629, 3>>,
     <<6500, 252, 17066, 25272, 3>>, <<10611, 10393, 1367, 32629, 3>>,
     <<8744, 32444, 20414, 25757, 11>>, <<15309, 19710, 633, 32629, 3>>,
     <<14722, 3689, 19126, 25424, 11>>, <<23231, 27159, 73, 32629, 3>>,
     <<10734, 28891, 8126, 25371, 11>>, <<6703, 30922, 32456, 32628, 3>>,
     <<2129, 10689, 28917, 25606, 11>>, <<5252, 29347, 32247, 32628, 3>>,
     <<16079, 31924, 32145, 25536, 11>>, <<24436, 20952, 32215, 32628, 3>>,
     <<32176, 278, 14635, 25655, 11>>, <<372, 4427, 32361, 32628, 3>>,
     <<26250, 15531, 25800, 25648, 11>>, <<26569, 11396, 32685, 32628, 3>>,
     <<21715, 15379, 29485, 25732, 3>>, <<23871, 8124, 421, 32629, 3>>,
     <<9501, 29339, 19314, 25561, 11>>, <<391, 26582, 1105, 32629, 3>>,
     <<16491, 10447, 13301, 25767, 3>>, <<16690, 609, 1972, 32629, 3>>,
     <<27733, 22444, 12166, 25391, 3>>, <<20066, 28062, 3020, 32629, 3>>,
     <<20290, 24423, 1812, 25669, 11>>, <<6674, 10364, 4253, 32629, 3>>,
     <<14132, 25206, 9947, 25755, 11>>, <<19987, 12953, 5670, 32629, 3>>,
     <<32542, 29747, 31248, 25602, 11>>, <<18349, 3143, 7273, 32629, 3>>,
     <<22382, 12516, 20803, 25766, 11>>, <<4845, 13961, 9062, 32629, 3>>,
     <<2560, 13853, 13725, 25733, 3>>, <<26265, 13076, 11039, 32629, 3>>,
     <<27316, 993, 23743, 25709, 3>>, <<8411, 1109, 13205, 32629, 3>>,
     <<26623, 14731, 22914, 25389, 11>>, <<17548, 11626, 15560, 32629, 3>>,
     <<24388, 13286, 23053, 25567, 3>>, <<30518, 12842, 18106, 32629, 3>>,
     <<15747, 20028, 9342, 25752, 11>>, <<32710, 5923, 20844, 32629, 3>>,
     <<7721, 5848, 9954, 25325, 11>>, <<17893, 24987, 23774, 32629, 3>>,
     <<14681, 31009, 4069, 25441, 11>>, <<21007, 6032, 26899, 32629, 3>>,
     <<31146, 17897, 3340, 25746, 11>>, <<20048, 16316, 30218, 32629, 3>>,
     <<3659, 11981, 10675, 25646, 11>>, <<1978, 24980, 965, 32630, 3>>,
     <<20007, 22307, 16368, 25485, 3>>, <<28816, 1351, 4678, 32630, 3>>,
     <<29627, 16916, 18647, 25454, 3>>, <<8995, 13254, 8588, 32630, 3>>,
     <<8803, 17604, 5136, 25662, 11>>, <<25957, 30395, 12697, 32630, 3>>,
     <<12757, 18372, 29211, 25688, 3>>, <<11571, 22676, 17007, 32630, 3>>,
     <<15125, 10105, 28487, 25741, 11>>, <<9565, 25724, 21518, 32630, 3>>,
     <<12754, 14812, 12486, 25734, 3>>, <<13144, 9825, 26232, 32630, 3>>,
     <<23219, 23782, 9745, 25635, 3>>, <<32191, 10995, 31149, 32630, 3>>,
     <<7604, 12061, 32566, 25622, 11>>, <<29562, 32679, 3502, 32631, 3>>,
     <<13191, 9622, 27102, 25696, 3>>, <<21421, 12981, 8830, 32631, 3>>,
     <<23034, 5539, 28221, 25731, 11>>, <<13926, 21275, 14364, 32631, 3>>,
     <<11962, 11705, 3941, 25262, 11>>, <<5627, 28830, 20106, 32631, 3>>,
     <<30272, 31565, 4152, 25733, 11>>, <<22842, 7114, 26058, 32631, 3>>,
     <<4916, 29019, 23504, 25414, 11>>, <<24135, 26102, 32219, 32631, 3>>,
     <<2613, 22193, 15241, 25743, 11>>, <<1610, 24898, 5824, 32632, 3>>,
     <<24013, 5311, 32604, 25511, 3>>, <<16850, 8343, 12410, 32632, 3>>,
     <<6316, 29989, 30703, 25741, 11>>, <<7689, 14254, 19209, 32632, 3>>,
     <<3251, 24926, 15032, 25499, 3>>, <<21148, 15114, 26223, 32632, 3>>,
     <<32148, 14655, 3273, 25719, 3>>, <<20602, 16383, 685, 32633, 3>>,
     <<22956, 8722, 575, 25639, 3>>, <<20811, 23727, 8132, 32633, 3>>,
     <<6759, 28828, 14012, 25374, 3>>, <<26549, 10253, 15798, 32633, 3>>,
     <<6504, 22820, 11441, 25403, 3>>, <<4201, 14815, 23683, 32633, 3>>,
     <<13778, 1945, 10338, 25604, 11>>, <<17402, 10939, 31789, 32633, 3>>,
     <<31343, 32767, 13684, 25725, 11>>, <<2428, 5135, 7349, 32634, 3>>,
     <<10569, 28907, 14008, 25728, 11>>, <<2546, 4123, 15900, 32634, 3>>,
     <<1959, 19578, 3606, 25509, 3>>, <<9351, 14839, 24675, 32634, 3>>,
     <<8719, 16512, 18040, 25620, 11>>, <<920, 11667, 908, 32635, 3>>,
     <<4780, 11139, 26947, 25714, 3>>, <<12933, 1974, 10136, 32635, 3>>,
     <<27467, 22530, 26982, 25633, 3>>, <<13408, 26115, 19591, 32635, 3>>,
     <<15903, 3944, 21636, 25622, 11>>, <<7007, 26359, 29276, 32635, 3>>,
     <<3529, 30350, 10980, 25673, 11>>, <<8489, 10731, 6424, 32636, 3>>,
     <<2259, 16501, 22545, 25509, 3>>, <<16374, 20246, 16571, 32636, 3>>,
     <<29297, 9018, 6065, 25630, 3>>, <<19587, 30606, 26951, 32636, 3>>,
     <<4592, 8103, 23626, 25727, 11>>, <<4314, 17737, 4798, 32637, 3>>,
     <<29821, 17478, 14947, 25709, 11>>, <<26609, 23324, 15648, 32637, 3>>,
     <<8200, 852, 3825, 25718, 3>>, <<23079, 23746, 26735, 32637, 3>>,
     <<27442, 1875, 11859, 25633, 3>>, <<14999, 28375, 5292, 32638, 3>>,
     <<1518, 25507, 4772, 25683, 3>>, <<17728, 14044, 16857, 32638, 3>>,
     <<25581, 18551, 24299, 25713, 11>>, <<15892, 23353, 28662, 32638, 3>>,
     <<19869, 6947, 9453, 25532, 3>>, <<4312, 829, 7942, 32639, 3>>,
     <<19593, 705, 5893, 25240, 3>>, <<29169, 22302, 20232, 32639, 3>>>>

\* tail + r + r^2 * (ExpC2 + r * ExpC3) + r^4 * (ExpC4 + r * ExpC5)
ExpPolynomial(r, r2, tail) ==
    FloatFma(FloatMul(r2, r2), FloatFma(r, ExpC5, ExpC4),
             FloatFma(FloatFma(r, ExpC3, ExpC2), r2, FloatAdd(tail, r)))

\* specialcase where k > 0: the result with the scale 2^-1009 times too small
ExpLarge(scale, tmp) == FloatMul(FloatFma(scale, tmp, scale), FloatExact(FALSE, <<1>>, 1009))

\* specialcase where k < 0, the scale 2^1022 times too large: y is scale + scale * tmp
\* and st is scale * tmp; a y below 1 is rounded as the subnormal number it becomes
ExpCorrected(scale, st, y, hi) ==
    FloatSub(FloatAdd(hi, FloatAdd(FloatAdd(FloatSub(FloatFromInt(1), hi), y),
                                   FloatAdd(FloatSub(scale, y), st))),
             FloatFromInt(1))

ExpSmall(scale, st, y) ==
    FloatMul(IF FloatGt(FloatFromInt(1), y)
             THEN ExpCorrected(scale, st, y, FloatAdd(FloatFromInt(1), y))
             ELSE y,
             FloatExact(FALSE, <<1>>, -1022))

ExpSmallScaled(scale, st) == ExpSmall(scale, st, FloatAdd(scale, st))

\* a result beyond the largest double is infinity
ExpOverflow(y) == IF FloatTop(y) > 1024 THEN FloatInf ELSE y

\* the result where 2^(k / N) may be outside the range of the doubles (|x| >= 512)
specialcase(tmp, sbits, ki) ==
    IF BigBit(ki, 31) = 0
    THEN ExpOverflow(ExpLarge(asdouble(Uint64Add(sbits, BigShl(BigFromInt(3087), 52))), tmp))
    ELSE ExpSmallScaled(asdouble(Uint64Add(sbits, BigShl(BigFromInt(1022), 52))),
                        FloatMul(asdouble(Uint64Add(sbits, BigShl(BigFromInt(1022), 52))),
                                 tmp))

\* scale + scale * tmp with scale = 2^(k / N) and tmp = exp(r) - 1
ExpScaled(tmp, sbits, ki, special) ==
    IF special THEN specialcase(tmp, sbits, ki)
    ELSE FloatFma(asdouble(sbits), tmp, asdouble(sbits))

\* the table entries at idx = 2 * (k % N): the tail and the scale
ExpLooked(r, ki, idx, special) ==
    ExpScaled(ExpPolynomial(r, FloatMul(r, r), asdouble(ExpTab[idx + 1])),
              Uint64Add(ExpTab[idx + 2], Uint64Shl(ki, 45)), ki, special)

\* r = x - kd * Ln2hiN - kd * Ln2loN
ExpRemainder(x, k) == FloatFma(k, NegLn2loN, FloatFma(k, NegLn2hiN, x))

\* exp from kd = x * InvLn2N + Shift on: the low bits of kd hold k
ExpReduced(x, kd, special) ==
    ExpLooked(ExpRemainder(x, FloatSub(kd, Shift)), asuint64(kd),
              2 * (Limb(asuint64(kd), 1) % 128), special)

\* the biased exponent of x: bits 52 to 62 of its representation
abstop(x) == BigToInt(BigShr(asuint64(x), 52)) % 2048

\* exp(x) of the C library: 1 + x below 2^-54, 0 for x <= -1024 and infinity for
\* x >= 1024; exp(-inf) is 0 and exp of inf or nan is 1 + x
ExpRanged(x, top) ==
    IF top < 969 THEN FloatAdd(FloatFromInt(1), x)
    ELSE IF top = 2047 /\ x # FloatNeg(FloatInf) THEN FloatAdd(FloatFromInt(1), x)
    ELSE IF top > 1032 THEN (IF x.neg THEN FloatZero ELSE FloatInf)
    ELSE ExpReduced(x, FloatFma(x, InvLn2N, Shift), top > 1031)

exp(x) == ExpRanged(x, abstop(x))

\* math.exp: an infinite result of a finite argument is an OverflowError
ExpChecked(x, y) ==
    IF IsInf(y) /\ ~IsInf(x) /\ ~IsNaN(x) THEN Raised("OverflowError") ELSE Returned(y)

\* the arguments that the explored inputs and the default time_scale give to math.exp,
\* and exp at each of them, evaluated once
ExpArguments ==
    {FloatQuot(FloatFromInt(-d), FloatFromInt(10)) : d \in 0..MaxTime \cup {9}}

ExpValues == {<<x, exp(x)>> : x \in ExpArguments}

ExpOf(x) ==
    IF x \in ExpArguments THEN (CHOOSE p \in ExpValues : p[1] = x)[2] ELSE exp(x)

math_exp(x) == ExpChecked(x, ExpOf(x))

(***************************************************************************)
(* matchers.py: DPMatcher.  self is the record of the fields __init__      *)
(* sets: w_time, w_text, the gap penalties and time_scale are floats.  A   *)
(* call that can raise gives Returned(value) or Raised(exception).         *)
(***************************************************************************)
\* set(a.lower().split()); for the texts most inputs explored hold, the set is
\* evaluated once
KnownTexts ==
    {Str("cat"), Str("Cat sits"), Str("cat sits"), Str("dog"), Str("a b"), Str("b c")}

KnownTokenSets == {<<text, Range(split(lower(text)))>> : text \in KnownTexts}

TokenSet(text) ==
    IF text \in KnownTexts THEN (CHOOSE p \in KnownTokenSets : p[1] = text)[2]
    ELSE Range(split(lower(text)))

\* DPMatcher._token_overlap_similarity
\* lines 355-359: the similarity of the two token sets
TokenOverlap(sa, sb) ==
    IF sa = {} \/ sb = {} THEN FloatZero
    ELSE FloatDiv(Cardinality(sa \cap sb), Cardinality(sa \cup sb))

token_overlap_similarity(a, b) == TokenOverlap(TokenSet(a), TokenSet(b))

\* self.text_sim_func(a, b), line 380: the field is None where line 344 has put the
\* object's own _token_overlap_similarity, and else holds the callable, a function from
\* pairs of texts to floats
text_sim_func(self, a, b) ==
    IF self.text_sim_func = None THEN token_overlap_similarity(a, b)
    ELSE self.text_sim_func[1][<<a, b>>]

\* DPMatcher._temporal_iou
temporal_iou(g, r) ==
    LET inter_start == Max(g.start, r.start)
        inter_end == Min(g.end, r.end)
        intersection == Max(0, inter_end - inter_start)
        un == (g.end - g.start) + (r.end - r.start) - intersection
    IN  IF un <= 0 THEN FloatZero ELSE FloatDiv(intersection, un)

\* DPMatcher._soft_time_similarity
soft_time_similarity(self, g, r) ==
    IF self.time_scale = FloatZero THEN Raised("ZeroDivisionError")
    ELSE math_exp(FloatQuot(FloatFromInt(-Abs(g.start - r.start)), self.time_scale))

\* DPMatcher._combined_similarity
\* line 388: self.w_time * s_time + self.w_text * s_text
WeightedSum(self, s_text, s_time) ==
    IF s_time.error # None THEN s_time
    ELSE Returned(FloatAdd(FloatMul(self.w_time, s_time.value),
                           FloatMul(self.w_text, s_text)))

combined_similarity(self, g, r) ==
    WeightedSum(self, text_sim_func(self, g.text, r.text),
                IF self.time_soft THEN soft_time_similarity(self, g, r)
                ELSE Returned(temporal_iou(g, r)))

\* the matrix of the cells computed row by row, or the exception of the first cell
\* that raised
SimilarityMatrix(n, m, cells) ==
    LET raising == {k \in 1..(n * m) : cells[k].error # None}
    IN  IF raising # {} THEN cells[CHOOSE k \in raising : \A l \in raising : k <= l]
        ELSE Returned([shape |-> <<n, m>>,
                       S |-> [i \in 0..(n - 1), j \in 0..(m - 1) |->
                                 cells[i * m + j + 1].value]])

\* a similarity matrix left at its np.zeros initial value
build_similarity_matrix_Zero(self, gen, ref) ==
    SimilarityMatrix(Len(gen), Len(ref),
                     [k \in 1..(Len(gen) * Len(ref)) |-> Returned(FloatZero)])

\* DPMatcher._build_similarity_matrix
build_similarity_matrix(self, gen, ref) ==
    SimilarityMatrix(Len(gen), Len(ref),
                     [k \in 1..(Len(gen) * Len(ref)) |->
                         combined_similarity(self, gen[((k - 1) \div Len(ref)) + 1],
                                             ref[((k - 1) % Len(ref)) + 1])])

\* the choice at one cell without the skip-reference candidate
BestMove_NoSkipRef(match_score, skip_gen_score, skip_ref_score) ==
    IF FloatGt(skip_gen_score, match_score) THEN [best |-> skip_gen_score, bt |-> 1]
    ELSE [best |-> match_score, bt |-> 0]

\* the choice at one cell with a skip replacing an equal score
BestMove_SkipOnTie(match_score, skip_gen_score, skip_ref_score) ==
    LET first == IF FloatGe(skip_gen_score, match_score)
                 THEN [best |-> skip_gen_score, bt |-> 1]
                 ELSE [best |-> match_score, bt |-> 0]
    IN  IF FloatGe(skip_ref_score, first.best) THEN [best |-> skip_ref_score, bt |-> 2]
        ELSE first

\* lines 433-441: the choice at one cell
BestMove(match_score, skip_gen_score, skip_ref_score) ==
    LET first == IF FloatGt(skip_gen_score, match_score)
                 THEN [best |-> skip_gen_score, bt |-> 1]
                 ELSE [best |-> match_score, bt |-> 0]
    IN  IF FloatGt(skip_ref_score, first.best) THEN [best |-> skip_ref_score, bt |-> 2]
        ELSE first

\* lines 420-441: the cells of the tables filled row by row, gg and gr being the two gap
\* penalties; done holds the cells before position k of that order, cell (i, j) at
\* place i * (m + 1) + j + 1
RECURSIVE dp_fill(_, _, _, _, _)
dp_fill(sim, gg, gr, k, done) ==
    LET n == sim.shape[1]
        m == sim.shape[2]
        i == k \div (m + 1)
        j == k % (m + 1)
        at(a, b) == done[a * (m + 1) + b + 1].best
        cell == IF i = 0 /\ j = 0 THEN [best |-> FloatZero, bt |-> 0]
                ELSE IF j = 0 THEN [best |-> FloatAdd(at(i - 1, 0), gg), bt |-> 1]
                ELSE IF i = 0 THEN [best |-> FloatAdd(at(0, j - 1), gr), bt |-> 2]
                ELSE BestMove(FloatAdd(at(i - 1, j - 1), sim.S[i - 1, j - 1]),
                              FloatAdd(at(i - 1, j), gg),
                              FloatAdd(at(i, j - 1), gr))
    IN  IF k = (n + 1) * (m + 1) THEN done
        ELSE dp_fill(sim, gg, gr, k + 1, Append(done, cell))

\* lines 413-441: the filled dp and bt tables
dp_tables(self, sim) ==
    LET n == sim.shape[1]
        m == sim.shape[2]
        tables(cells) ==
            [dp |-> [i \in 0..n, j \in 0..m |-> cells[i * (m + 1) + j + 1].best],
             bt |-> [i \in 0..n, j \in 0..m |-> cells[i * (m + 1) + j + 1].bt]]
    IN  tables(dp_fill(sim, self.gap_penalty_gen, self.gap_penalty_ref,
                       0, <<>>))

\* backtracking that stops as soon as either coordinate reaches 0
RECURSIVE Backtracking_StopAtEdge(_, _, _, _, _)
Backtracking_StopAtEdge(self, sim, bt, i, j) ==
    IF ~(i > 0 /\ j > 0) THEN <<>>
    ELSE LET move == bt[i, j]
         IN  IF move = 0
             THEN <<<<Some(i - 1), Some(j - 1), sim.S[i - 1, j - 1]>>>>
                  \o Backtracking_StopAtEdge(self, sim, bt, i - 1, j - 1)
             ELSE IF move = 1
             THEN <<<<Some(i - 1), None, self.gap_penalty_gen>>>>
                  \o Backtracking_StopAtEdge(self, sim, bt, i - 1, j)
             ELSE <<<<None, Some(j - 1), self.gap_penalty_ref>>>>
                  \o Backtracking_StopAtEdge(self, sim, bt, i, j - 1)

\* lines 446-458: the entries appended from cell (i, j) on, in append order
RECURSIVE Backtracking(_, _, _, _, _)
Backtracking(self, sim, bt, i, j) ==
    IF ~(i > 0 \/ j > 0) THEN <<>>
    ELSE LET move == bt[i, j]
         IN  IF i > 0 /\ j > 0 /\ move = 0
             THEN <<<<Some(i - 1), Some(j - 1), sim.S[i - 1, j - 1]>>>>
                  \o Backtracking(self, sim, bt, i - 1, j - 1)
             ELSE IF i > 0 /\ (j = 0 \/ move = 1)
             THEN <<<<Some(i - 1), None, self.gap_penalty_gen>>>>
                  \o Backtracking(self, sim, bt, i - 1, j)
             ELSE <<<<None, Some(j - 1), self.gap_penalty_ref>>>>
                  \o Backtracking(self, sim, bt, i, j - 1)

\* one pass of the loop in which the diagonal move forgets j -= 1
backtrack_step_DiagonalKeepsJ(self, sim, bt, i, j) ==
    LET move == bt[i, j]
    IN  IF i > 0 /\ j > 0 /\ move = 0
        THEN [entry |-> <<Some(i - 1), Some(j - 1), sim.S[i - 1, j - 1]>>,
              i |-> i - 1, j |-> j]
        ELSE IF i > 0 /\ (j = 0 \/ move = 1)
        THEN [entry |-> <<Some(i - 1), None, self.gap_penalty_gen>>,
              i |-> i - 1, j |-> j]
        ELSE [entry |-> <<None, Some(j - 1), self.gap_penalty_ref>>,
              i |-> i, j |-> j - 1]

\* lines 447-458: one pass of the while loop at cell (i, j): the entry appended and
\* the values of i and j after it
backtrack_step(self, sim, bt, i, j) ==
    LET move == bt[i, j]
    IN  IF i > 0 /\ j > 0 /\ move = 0
        THEN [entry |-> <<Some(i - 1), Some(j - 1), sim.S[i - 1, j - 1]>>,
              i |-> i - 1, j |-> j - 1]
        ELSE IF i > 0 /\ (j = 0 \/ move = 1)
        THEN [entry |-> <<Some(i - 1), None, self.gap_penalty_gen>>,
              i |-> i - 1, j |-> j]
        ELSE [entry |-> <<None, Some(j - 1), self.gap_penalty_ref>>,
              i |-> i, j |-> j - 1]

\* the alignment left in backtracking order
Reverse_Missing(s) == s

\* list.reverse
Reverse(s) == [k \in 1..Len(s) |-> s[Len(s) + 1 - k]]

\* DPMatcher._dp_align
dp_align(self, sim) ==
    Reverse(Backtracking(self, sim, dp_tables(self, sim).bt, sim.shape[1], sim.shape[2]))

\* the record of one alignment entry, a matched pair carrying no score
AlignmentPair_NoScore(entry, gen, ref) ==
    LET g_idx == entry[1]
        r_idx == entry[2]
        score == entry[3]
    IN  IF g_idx # None /\ r_idx # None
        THEN LET g == gen[g_idx[1] + 1]
                 r == ref[r_idx[1] + 1]
             IN  MatchedPair(<<g>>, <<r>>, <<g.index>>, <<r.index>>, g.text, r.text,
                             Some(g.start), Some(g.end), Some(r.start), Some(r.end),
                             TRUE, "dp_match", None)
        ELSE IF g_idx # None
        THEN LET g == gen[g_idx[1] + 1]
             IN  MatchedPair(<<g>>, <<>>, <<g.index>>, <<>>, g.text, <<>>,
                             Some(g.start), Some(g.end), None, None,
                             FALSE, "dp_gen_gap", Some(score))
        ELSE LET r == ref[r_idx[1] + 1]
             IN  MatchedPair(<<>>, <<r>>, <<>>, <<r.index>>, <<>>, r.text,
                             None, None, Some(r.start), Some(r.end),
                             FALSE, "dp_ref_gap", Some(score))

\* lines 481-537: the record of one alignment entry
AlignmentPair(entry, gen, ref) ==
    LET g_idx == entry[1]
        r_idx == entry[2]
        score == entry[3]
    IN  IF g_idx # None /\ r_idx # None
        THEN LET g == gen[g_idx[1] + 1]
                 r == ref[r_idx[1] + 1]
             IN  MatchedPair(<<g>>, <<r>>, <<g.index>>, <<r.index>>, g.text, r.text,
                             Some(g.start), Some(g.end), Some(r.start), Some(r.end),
                             TRUE, "dp_match", Some(score))
        ELSE IF g_idx # None
        THEN LET g == gen[g_idx[1] + 1]
             IN  MatchedPair(<<g>>, <<>>, <<g.index>>, <<>>, g.text, <<>>,
                             Some(g.start), Some(g.end), None, None,
                             FALSE, "dp_gen_gap", Some(score))
        ELSE LET r == ref[r_idx[1] + 1]
             IN  MatchedPair(<<>>, <<r>>, <<>>, <<r.index>>, <<>>, r.text,
                             None, None, Some(r.start), Some(r.end),
                             FALSE, "dp_ref_gap", Some(score))

\* an early return only when both inputs are empty
DPEmptyInput_Both(gen, ref) == gen = <<>> /\ ref = <<>>

\* line 469: not gen_events or not ref_events
DPEmptyInput(gen, ref) == gen = <<>> \/ ref = <<>>

\* DPMatcher.match: the returned list and the locals at return, or the exception
DPRecords(gen, ref, sim, al) ==
    [error |-> None, pairs |-> [k \in 1..Len(al) |-> AlignmentPair(al[k], gen, ref)],
     sim_matrix |-> Some(sim), alignment |-> Some(al)]

DPAligned(self, gen, ref, got) ==
    IF got.error # None
    THEN [error |-> got.error, pairs |-> <<>>, sim_matrix |-> None, alignment |-> None]
    ELSE DPRecords(gen, ref, got.value, dp_align(self, got.value))

DPMatcher_match(self, gen, ref) ==
    IF DPEmptyInput(gen, ref)
    THEN [error |-> None, pairs |-> <<>>, sim_matrix |-> None, alignment |-> None]
    ELSE DPAligned(self, gen, ref, build_similarity_matrix(self, gen, ref))

(***************************************************************************)
(* utils.py: get_time_range and calculate_coverage_stats                   *)
(***************************************************************************)
get_time_range(events) ==
    IF events = <<>> THEN <<0, 0>> ELSE <<MinStart(events), MaxEnd(events)>>

\* the indices collected once per record that holds them, as a list would
RECURSIVE MatchedIndices_PerRecord(_, _, _, _)
MatchedIndices_PerRecord(pairs, field, k, acc) ==
    IF k > Len(pairs) THEN acc
    ELSE MatchedIndices_PerRecord(pairs, field, k + 1,
                                  IF pairs[k].matched
                                  THEN acc \cup {<<k, x>> : x \in Range(pairs[k][field])}
                                  ELSE acc)

\* lines 313-316 / 322-325: the index set after the loop over pairs k, k+1, ...
RECURSIVE MatchedIndices(_, _, _, _)
MatchedIndices(pairs, field, k, acc) ==
    IF k > Len(pairs) THEN acc
    ELSE MatchedIndices(pairs, field, k + 1,
                        IF pairs[k].matched THEN acc \cup Range(pairs[k][field]) ELSE acc)

\* coverage counting the indices of every record, matched or not
calculate_coverage_stats_AllRecords(gen, ref, pairs) ==
    LET gen_time_range == get_time_range(gen)
        count(field) == Cardinality(UNION {Range(pairs[k][field]) : k \in 1..Len(pairs)})
        gen_total == Len(gen)
        ref_total == Len(ref)
    IN  [gen_time_start |-> gen_time_range[1], gen_time_end |-> gen_time_range[2],
         gen_total |-> gen_total, gen_matched |-> count("gen_indices"),
         gen_unmatched |-> gen_total - count("gen_indices"),
         gen_coverage_pct |-> IF gen_total > 0
                              THEN FloatMul(FloatDiv(count("gen_indices"), gen_total),
                                            FloatFromInt(100))
                              ELSE FloatZero,
         ref_in_range |-> ref_total, ref_matched |-> count("ref_indices"),
         ref_unmatched |-> ref_total - count("ref_indices"),
         ref_coverage_pct |-> IF ref_total > 0
                              THEN FloatMul(FloatDiv(count("ref_indices"), ref_total),
                                            FloatFromInt(100))
                              ELSE FloatZero]

\* utils.calculate_coverage_stats
calculate_coverage_stats(gen, ref, pairs) ==
    LET gen_time_range == get_time_range(gen)
        gen_total == Len(gen)
        gen_matched_indices == MatchedIndices(pairs, "gen_indices", 1, {})
        gen_matched == Cardinality(gen_matched_indices)
        gen_unmatched == gen_total - gen_matched
        ref_total == Len(ref)
        ref_matched_indices == MatchedIndices(pairs, "ref_indices", 1, {})
        ref_matched == Cardinality(ref_matched_indices)
        ref_unmatched == ref_total - ref_matched
    IN  [gen_time_start |-> gen_time_range[1], gen_time_end |-> gen_time_range[2],
         gen_total |-> gen_total, gen_matched |-> gen_matched,
         gen_unmatched |-> gen_unmatched,
         gen_coverage_pct |-> IF gen_total > 0
                              THEN FloatMul(FloatDiv(gen_matched, gen_total),
                                            FloatFromInt(100))
                              ELSE FloatZero,
         ref_in_range |-> ref_total, ref_matched |-> ref_matched,
         ref_unmatched |-> ref_unmatched,
         ref_coverage_pct |-> IF ref_total > 0
                              THEN FloatMul(FloatDiv(ref_matched, ref_total),
                                            FloatFromInt(100))
                              ELSE FloatZero]

(***************************************************************************)
(* cli.py: run_evaluation, lines 194-201                                   *)
(***************************************************************************)
\* lines 194-197: the four locals
Counts(total_gen, total_ref, matched_gen, matched_ref) ==
    [total_gen |-> total_gen, total_ref |-> total_ref,
     matched_gen |-> matched_gen, matched_ref |-> matched_ref]

\* line 201: 2 * precision * recall / (precision + recall) if the sum is positive
F1OfSum(precision, recall, sum) ==
    IF FloatGt(sum, FloatZero)
    THEN FloatQuot(FloatMul(FloatMul(FloatFromInt(2), precision), recall), sum)
    ELSE FloatZero

f1_score(precision, recall) == F1OfSum(precision, recall, FloatAdd(precision, recall))

ScoresOf(precision, recall) ==
    [precision |-> precision, recall |-> recall, f1_score |-> f1_score(precision, recall)]

\* the scores with recall taken over the generated total
Scores_RecallOverGenerated(c) ==
    ScoresOf(IF c.total_gen > 0 THEN FloatDiv(c.matched_gen, c.total_gen) ELSE FloatZero,
             IF c.total_gen > 0 THEN FloatDiv(c.matched_ref, c.total_gen) ELSE FloatZero)

\* lines 199-201
Scores(c) ==
    ScoresOf(IF c.total_gen > 0 THEN FloatDiv(c.matched_gen, c.total_gen) ELSE FloatZero,
             IF c.total_ref > 0 THEN FloatDiv(c.matched_ref, c.total_ref) ELSE FloatZero)

(***************************************************************************)
(* The inputs: two event lists with indices unique within each list (the   *)
(* loaders number the events before sorting them), in any order, and the   *)
(* lists of Scenario A.                                                    *)
(***************************************************************************)
Texts == {Str("cat"), Str("Cat sits")}

Events(n) == {ADEvent(s, e, t, x) :
                 s \in 0..MaxTime, e \in 0..MaxTime, t \in Texts, x \in 0..(n - 1)}

EventLists(max) ==
    UNION {{l \in [1..n -> {ev \in Events(n) : ev.start <= ev.end}] :
               \A a, b \in 1..n : a # b => l[a].index # l[b].index} : n \in 0..max}

ScenarioAGen == <<ADEvent(0, 5, Str("cat"), 0), ADEvent(10, 15, Str("dog"), 1)>>
ScenarioARef == <<ADEvent(1, 4, Str("cat sits"), 0)>>

\* Scenario B: 'a b' at (0,1) on both sides
ScenarioBGen == <<ADEvent(0, 1, Str("a b"), 0)>>
ScenarioBRef == <<ADEvent(0, 1, Str("a b"), 0)>>

\* similarities 1/3 and 5/6, which no float holds exactly: with weights 1/4 and 3/4 and
\* penalties of -1/4 two alignments whose totals are equal as real numbers get different
\* float totals
RoundingGen == <<ADEvent(0, 1, Str("cat"), 1), ADEvent(2, 3, Str("a b"), 0)>>
RoundingRef == <<ADEvent(0, 3, Str("a b"), 0), ADEvent(2, 3, Str("cat"), 1)>>

\* a temporal IoU and a token overlap of 1/3 each: with weights 1/8 and 5/8 the combined
\* similarity is the float next below 1/4
NearTieGen == <<ADEvent(0, 0, Str("dog"), 0), ADEvent(0, 1, Str("a b"), 1)>>
NearTieRef == <<ADEvent(0, 3, Str("b c"), 0)>>

\* texts that differ in case outside ASCII: a capital sigma that lowers to the final
\* form in the one and to the medial form in the other, and a capital I with dot above,
\* which lowers to two characters
CaseGen == <<ADEvent(0, 2, <<201, 84, 201, 32, 922, 913, 931>>, 0),
             ADEvent(1, 3, <<304, 32, 922, 913, 931, 913>>, 1)>>
CaseRef == <<ADEvent(0, 2, <<233, 116, 233, 32, 954, 945, 962>>, 0),
             ADEvent(1, 3, <<105, 775, 32, 954, 945, 963, 945>>, 1)>>

\* min_overlap_sec in half seconds: -0.5 (the constructors accept any number), 0, the
\* default 0.5, 1.5, and more than any overlap
MinOverlaps == {-1, 0, 1, 3, 2 * MaxTime + 1}

\* ClusterMatcher.__init__ / OverlapMatcher.__init__
OverlapConfig(name, min_overlap_sec) == [name |-> name, min_overlap_sec |-> min_overlap_sec]

\* DPMatcher.__init__, lines 338-344
DPConfig(w_time, w_text, gap_penalty_gen, gap_penalty_ref, time_scale, time_soft, sim_func) ==
    [name |-> "dp", w_time |-> w_time, w_text |-> w_text,
     gap_penalty_gen |-> gap_penalty_gen, gap_penalty_ref |-> gap_penalty_ref,
     time_scale |-> time_scale, time_soft |-> time_soft, text_sim_func |-> sim_func]

\* the defaults of DPMatcher.__init__: 0.3, 0.7, -0.2, -0.2, 10.0, True, None
DPDefaults ==
    DPConfig(FloatDiv(3, 10), FloatDiv(7, 10), FloatDiv(-2, 10), FloatDiv(-2, 10),
             FloatFromInt(10), TRUE, None)

\* DPMatcher with weights and penalties given in eighths and the default time_scale
DPEighths(w_time, w_text, gap_penalty_gen, gap_penalty_ref, time_soft) ==
    DPConfig(FloatDiv(w_time, 8), FloatDiv(w_text, 8), FloatDiv(gap_penalty_gen, 8),
             FloatDiv(gap_penalty_ref, 8), FloatFromInt(10), time_soft, None)

\* time a quarter and text three quarters with penalties of a quarter; unequal penalties;
\* text only; penalties above any score; rewards of a quarter per gap, whose sum some
\* scores reach and others do not; rewards of an eighth per gap with weights of 1/8 and
\* 5/8; the defaults, the soft time similarity among them; gap rewards of 2^1023, two
\* of which add up to inf; the soft time similarity with a time_scale of 0.0, which the
\* constructor accepts
DPConfigs == {DPEighths(2, 6, -2, -2, FALSE),
              DPEighths(2, 6, -2, -1, FALSE),
              DPEighths(0, 8, -2, -2, FALSE),
              DPEighths(2, 6, 5, 4, FALSE),
              DPEighths(2, 6, 2, 2, FALSE),
              DPEighths(1, 5, 1, 1, FALSE),
              DPDefaults,
              DPConfig(FloatDiv(2, 8), FloatDiv(6, 8), FloatExact(FALSE, <<1>>, 1023),
                       FloatExact(FALSE, <<1>>, 1023), FloatFromInt(10), FALSE, None),
              DPConfig(FloatDiv(2, 8), FloatDiv(6, 8), FloatDiv(-2, 8), FloatDiv(-2, 8),
                       FloatZero, TRUE, None)}

NoMatcher == [name |-> "none"]

(***************************************************************************)
(* matchers.py: get_matcher, and BaseMatcher.match dispatched on the       *)
(* object's class.                                                         *)
(***************************************************************************)
\* the keys of the matchers dict, lines 560-564
MatcherClasses == {"cluster", "dp", "overlap"}

\* the keyword parameters the constructor of each class declares
Parameters(cls) ==
    IF cls = "dp"
    THEN {"w_time", "w_text", "gap_penalty_gen", "gap_penalty_ref", "time_scale",
          "time_soft", "text_sim_func"}
    ELSE {"min_overlap_sec"}

\* the value a parameter takes: the keyword argument, or the default
Argument(kwargs, key, default) == IF key \in DOMAIN kwargs THEN kwargs[key] ELSE default

\* matchers[method_lower] called with kwargs: a keyword the constructor does not declare is a
\* TypeError
Construct(cls, kwargs) ==
    IF ~(DOMAIN kwargs \subseteq Parameters(cls)) THEN Raised("TypeError")
    ELSE IF cls = "dp"
    THEN Returned(DPConfig(Argument(kwargs, "w_time", DPDefaults.w_time),
                           Argument(kwargs, "w_text", DPDefaults.w_text),
                           Argument(kwargs, "gap_penalty_gen", DPDefaults.gap_penalty_gen),
                           Argument(kwargs, "gap_penalty_ref", DPDefaults.gap_penalty_ref),
                           Argument(kwargs, "time_scale", DPDefaults.time_scale),
                           Argument(kwargs, "time_soft", DPDefaults.time_soft),
                           Argument(kwargs, "text_sim_func", DPDefaults.text_sim_func)))
    ELSE Returned(OverlapConfig(cls, Argument(kwargs, "min_overlap_sec", 1)))

\* matchers.get_matcher
MatcherKeys(lowered) == {cls \in MatcherClasses : Str(cls) = lowered}

Constructed(keys, kwargs) ==
    IF keys = {} THEN Raised("ValueError") ELSE Construct(CHOOSE cls \in keys : TRUE, kwargs)

\* the method names a configuration file can hold
Methods == {Str("cluster"), Str("overlap"), Str("dp"), Str("DP"), Str("Overlap"),
            Str("greedy"), <<65316, 65328>>}

\* line 566: method.lower(); for the names of Methods it is evaluated once
LoweredMethods == {<<method, lower(method)>> : method \in Methods}

method_lower(method) ==
    IF method \in Methods THEN (CHOOSE p \in LoweredMethods : p[1] = method)[2]
    ELSE lower(method)

get_matcher(method, kwargs) == Constructed(MatcherKeys(method_lower(method)), kwargs)

\* what DPMatcher.match gives, which has no union-find
WithoutUnionFind(r) ==
    [error |-> r.error, pairs |-> r.pairs, uf |-> None, sim_matrix |-> r.sim_matrix,
     alignment |-> r.alignment]

\* matcher.match(gen_events, ref_events): the returned list and the locals at return,
\* or the exception
match(self, gen, ref) ==
    IF self.name = "cluster"
    THEN LET r == ClusterMatcher_match(gen, ref, self.min_overlap_sec)
         IN  [error |-> None, pairs |-> r.pairs, uf |-> r.uf, sim_matrix |-> None,
              alignment |-> None]
    ELSE IF self.name = "overlap"
    THEN [error |-> None, pairs |-> OverlapMatcher_match(gen, ref, self.min_overlap_sec),
          uf |-> None, sim_matrix |-> None, alignment |-> None]
    ELSE WithoutUnionFind(DPMatcher_match(self, gen, ref))

(***************************************************************************)
(* matchers.py: the match methods as Python runs them, on objects.  A list *)
(* and a matcher are objects.  A name is bound to an object; append, sort  *)
(* and the union and find of a UnionFind change the object they are called *)
(* on, under whatever name it is reached, where [], a comprehension and    *)
(* sorted() make a new list.  A frame holds what each name of the running  *)
(* call is bound to and the content of every object: those of the caller,  *)
(* which the parameters are bound to, and those the call has made, each    *)
(* known by the name it was first bound to.  No statement of the package   *)
(* assigns an attribute of an event or of a matcher after __init__, so an  *)
(* event is a value inside its list.                                       *)
(***************************************************************************)
\* the content of the object a name is bound to
Value(frame, name) == frame.objects[frame.names[name]]

\* name = <a new object>
Assigned(frame, name, content) ==
    [names |-> (name :> name) @@ frame.names,
     objects |-> (name :> content) @@ frame.objects]

\* a statement that changes the object bound to name
InPlace(frame, name, content) ==
    [names |-> frame.names,
     objects |-> (frame.names[name] :> content) @@ frame.objects]

\* the frame of self.match(gen_events, ref_events) at entry: the parameters bound to
\* the objects the caller passes
Entered(objects, self, gen, ref) ==
    [names |-> [self |-> self, gen_events |-> gen, ref_events |-> ref],
     objects |-> objects]

\* return and raise: what the caller gets, and the objects as the call leaves them
Return(frame, value) ==
    [error |-> None, value |-> value, names |-> frame.names, objects |-> frame.objects]

Raise(frame, e) ==
    [error |-> e, value |-> None, names |-> frame.names, objects |-> frame.objects]

\* the content of a local at return, None if the call never bound the name
Local(out, name) == IF name \in DOMAIN out.names THEN Some(Value(out, name)) ELSE None

\* lines 112-126: events = [], then one append per generated and per reference event
ClusterUnified(frame) ==
    InPlace(Assigned(frame, "events", <<>>), "events",
            UnifiedEvents(Value(frame, "gen_events"), Value(frame, "ref_events")))

\* lines 135-140: the calls of uf.union
ClusterScanned(frame) ==
    InPlace(frame, "uf",
            LinkOverlapping(Value(frame, "uf"), Value(frame, "events"),
                            Value(frame, "self").min_overlap_sec, 0, 1))

\* line 133: uf = UnionFind(n)
ClusterUnited(frame) ==
    ClusterScanned(Assigned(frame, "uf", UnionFind(Len(Value(frame, "events")))))

\* lines 143-148: clusters = {} filled in the order of the roots; the calls of uf.find
\* compress the paths of uf
ClusterGrouped(frame) ==
    Assigned(InPlace(frame, "uf",
                     FindAll(Value(frame, "uf"), 0, Len(Value(frame, "events")))),
             "clusters",
             [c \in 1..Len(ClusterRoots(Value(frame, "uf"), 0, <<>>)) |->
                 ClusterEvents(FindAll(Value(frame, "uf"), 0, Len(Value(frame, "events"))),
                               Value(frame, "events"),
                               ClusterRoots(Value(frame, "uf"), 0, <<>>)[c])])

\* lines 151-209: matched_pairs = [], then the appends of the records of each cluster
ClusterAppended(frame) ==
    InPlace(Assigned(frame, "matched_pairs", <<>>), "matched_pairs",
            Flatten([c \in 1..Len(Value(frame, "clusters")) |->
                        ClusterPairs(Value(frame, "clusters")[c])]))

\* line 219: matched_pairs.sort(key=sort_key)
ClusterSorted(frame) ==
    InPlace(frame, "matched_pairs", SortedByKey(Value(frame, "matched_pairs")))

\* lines 128-221, from the unified list on
ClusterFrom(frame) ==
    IF Len(Value(frame, "events")) = 0 THEN Return(frame, <<>>)
    ELSE Return(ClusterSorted(ClusterAppended(ClusterGrouped(ClusterUnited(frame)))),
                SortedByKey(Value(ClusterAppended(ClusterGrouped(ClusterUnited(frame))),
                                  "matched_pairs")))

\* ClusterMatcher.match
ClusterMatcher_frame(frame) == ClusterFrom(ClusterUnified(frame))

\* the reference events with their overlaps, in the order of ref
WithOverlaps(gen_event, ref) ==
    [k \in 1..Len(ref) |-> <<ref[k], overlap_duration(gen_event, ref[k])>>]

\* ref_events.sort(key=...) by overlap before the scan: the sort changes the list of the
\* caller
OverlapFiltered_SortedArgument(frame, gen_event) ==
    LET by_overlap == SortedByOverlap(WithOverlaps(gen_event, Value(frame, "ref_events")))
        sorted == InPlace(frame, "ref_events",
                          [k \in 1..Len(by_overlap) |-> by_overlap[k][1]])
    IN  InPlace(Assigned(sorted, "overlapping", <<>>), "overlapping",
                Overlapping(gen_event, Value(sorted, "ref_events"),
                            Value(sorted, "self").min_overlap_sec))

\* lines 259-263: overlapping = [], then the appends of the reference events that overlap
OverlapFiltered(frame, gen_event) ==
    InPlace(Assigned(frame, "overlapping", <<>>), "overlapping",
            Overlapping(gen_event, Value(frame, "ref_events"),
                        Value(frame, "self").min_overlap_sec))

\* line 267: overlapping.sort(key=lambda x: -x[1])
OverlapSorted(frame) ==
    IF Value(frame, "overlapping") = <<>> THEN frame
    ELSE InPlace(frame, "overlapping", SortedByOverlap(Value(frame, "overlapping")))

\* line 268: ref_sorted = [r for r, _ in overlapping]
OverlapPicked(frame) ==
    IF Value(frame, "overlapping") = <<>> THEN frame
    ELSE Assigned(frame, "ref_sorted",
                  [k \in 1..Len(Value(frame, "overlapping")) |->
                      Value(frame, "overlapping")[k][1]])

\* lines 270-299: matched_pairs.append of the record of gen_event
OverlapAppended(frame, gen_event) ==
    InPlace(frame, "matched_pairs",
            Append(Value(frame, "matched_pairs"),
                   OverlapPair(gen_event, Value(frame, "ref_events"),
                               Value(frame, "self").min_overlap_sec)))

\* lines 257-299: the loop over the list bound to gen_events, from its k-th item on
RECURSIVE OverlapIterated(_, _)
OverlapIterated(frame, k) ==
    IF k > Len(Value(frame, "gen_events")) THEN frame
    ELSE OverlapIterated(
             OverlapAppended(
                 OverlapPicked(OverlapSorted(
                     OverlapFiltered(frame, Value(frame, "gen_events")[k]))),
                 Value(frame, "gen_events")[k]),
             k + 1)

\* line 301: return matched_pairs
OverlapReturned(frame) == Return(frame, Value(frame, "matched_pairs"))

\* OverlapMatcher.match
OverlapMatcher_frame(frame) ==
    OverlapReturned(OverlapIterated(Assigned(frame, "matched_pairs", <<>>), 1))

\* lines 479-539: matched_pairs = [], one append per entry of alignment, and the return
DPAppended(frame) ==
    Return(InPlace(Assigned(frame, "matched_pairs", <<>>), "matched_pairs",
                   [k \in 1..Len(Value(frame, "alignment")) |->
                       AlignmentPair(Value(frame, "alignment")[k],
                                     Value(frame, "gen_events"), Value(frame, "ref_events"))]),
           [k \in 1..Len(Value(frame, "alignment")) |->
               AlignmentPair(Value(frame, "alignment")[k],
                             Value(frame, "gen_events"), Value(frame, "ref_events"))])

\* lines 473-476: sim_matrix and alignment, the objects the two methods return
DPAlignedFrame(frame, got) ==
    IF got.error # None THEN Raise(frame, got.error)
    ELSE DPAppended(Assigned(Assigned(frame, "sim_matrix", got.value),
                             "alignment", dp_align(Value(frame, "self"), got.value)))

\* DPMatcher.match
DPMatcher_frame(frame) ==
    IF DPEmptyInput(Value(frame, "gen_events"), Value(frame, "ref_events"))
    THEN Return(frame, <<>>)
    ELSE DPAlignedFrame(frame,
                        build_similarity_matrix(Value(frame, "self"),
                                                Value(frame, "gen_events"),
                                                Value(frame, "ref_events")))

\* matcher.match(gen_events, ref_events) on the objects of the caller: the method of
\* the class of the matcher
Called(frame) ==
    IF Value(frame, "self").name = "cluster" THEN ClusterMatcher_frame(frame)
    ELSE IF Value(frame, "self").name = "overlap" THEN OverlapMatcher_frame(frame)
    ELSE DPMatcher_frame(frame)

(***************************************************************************)
(* cli.py: run_evaluation, lines 155-201.  config.matcher is a record of   *)
(* the fields of config.MatcherConfig.                                     *)
(***************************************************************************)
MatcherConfig(method, min_overlap_sec, dp) ==
    [method |-> method, min_overlap_sec |-> min_overlap_sec,
     w_time |-> dp.w_time, w_text |-> dp.w_text,
     gap_penalty_gen |-> dp.gap_penalty_gen, gap_penalty_ref |-> dp.gap_penalty_ref,
     time_scale |-> dp.time_scale, time_soft |-> dp.time_soft]

\* the dp fields vary where run_evaluation reads them: with method 'dp'
MatcherConfigs ==
    UNION {{MatcherConfig(method, min_overlap_sec, dp) :
               min_overlap_sec \in MinOverlaps,
               dp \in IF method = Str("dp")
                      THEN {DPDefaults, DPEighths(2, 6, -2, -1, FALSE)}
                      ELSE {DPDefaults}} :
              method \in Methods}

\* lines 169-178
matcher_kwargs(matcher_config) ==
    IF matcher_config.method = Str("dp")
    THEN [min_overlap_sec |-> matcher_config.min_overlap_sec,
          w_time |-> matcher_config.w_time, w_text |-> matcher_config.w_text,
          gap_penalty_gen |-> matcher_config.gap_penalty_gen,
          gap_penalty_ref |-> matcher_config.gap_penalty_ref,
          time_scale |-> matcher_config.time_scale, time_soft |-> matcher_config.time_soft]
    ELSE [min_overlap_sec |-> matcher_config.min_overlap_sec]

\* lines 156-166 and 191-211 of utils.py: what the loaders return.  The events are
\* numbered in file order and then sorted by start (a stable sort); the reference
\* events are those that meet the time range of the generated ones.
ByIndex(events) ==
    [x \in 1..Len(events) |-> CHOOSE e \in Range(events) : e.index = x - 1]

Loaded(gen, ref) ==
    LET time_range == get_time_range(gen)
    IN  /\ gen = SortedByStart(ByIndex(gen))
        /\ ref = SortedByStart(ByIndex(ref))
        /\ \A k \in 1..Len(ref) :
              ref[k].start <= time_range[2] /\ ref[k].end >= time_range[1]

\* lines 167-201: what run_evaluation has computed when it reaches line 201, or the
\* exception that ended it
EvaluationRaised(e, self) ==
    [error |-> e, matcher |-> self, result |-> None, coverage |-> None, counts |-> None,
     scores |-> None]

\* lines 193-201
EvaluationScored(self, r, cov, c) ==
    [error |-> None, matcher |-> self, result |-> Some(r), coverage |-> Some(cov),
     counts |-> Some(c), scores |-> Some(Scores(c))]

\* lines 181-196
EvaluationCounted(self, gen, ref, r, cov) ==
    EvaluationScored(self, r, cov,
                     Counts(Len(gen), Len(ref), cov.gen_matched, cov.ref_matched))

\* lines 179-181
EvaluationMatched(self, gen, ref, r) ==
    IF r.error # None THEN EvaluationRaised(r.error, self)
    ELSE EvaluationCounted(self, gen, ref, r, calculate_coverage_stats(gen, ref, r.pairs))

EvaluationWith(got, gen, ref) ==
    IF got.error # None THEN EvaluationRaised(got.error, NoMatcher)
    ELSE EvaluationMatched(got.value, gen, ref, match(got.value, gen, ref))

run_evaluation(matcher_config, gen, ref) ==
    EvaluationWith(get_matcher(matcher_config.method, matcher_kwargs(matcher_config)),
                   gen, ref)

Init ==
    /\ \/ /\ gen_events = ScenarioAGen
          /\ ref_events = ScenarioARef
       \/ /\ gen_events = ScenarioBGen
          /\ ref_events = ScenarioBRef
       \/ /\ gen_events = RoundingGen
          /\ ref_events = RoundingRef
       \/ /\ gen_events = NearTieGen
          /\ ref_events = NearTieRef
       \/ /\ gen_events = CaseGen
          /\ ref_events = CaseRef
       \/ /\ gen_events \in EventLists(MaxGen)
          /\ ref_events \in EventLists(MaxRef)
          /\ Len(gen_events) + Len(ref_events) <= MaxEvents
    /\ pc = "ready"
    /\ matcher = NoMatcher
    /\ matched_pairs = <<>>
    /\ uf = None
    /\ sim_matrix = None
    /\ alignment = None
    /\ first_pairs = None
    /\ calls = <<>>
    /\ config = None
    /\ error = None
    /\ coverage = None
    /\ counts = None
    /\ scores = None
    /\ ij = None
    /\ dp_bt = None

\* get_matcher('cluster', min_overlap_sec=...) followed by matcher.match
ClusterMatch ==
    /\ pc = "ready"
    /\ \E min_overlap_sec \in MinOverlaps :
          LET r == ClusterMatcher_match(gen_events, ref_events, min_overlap_sec)
          IN  /\ matcher' = OverlapConfig("cluster", min_overlap_sec)
              /\ matched_pairs' = r.pairs
              /\ first_pairs' = Some(r.pairs)
              /\ uf' = r.uf
    /\ pc' = "done"
    /\ calls' = <<"inputs">>
    /\ UNCHANGED <<gen_events, ref_events, sim_matrix, alignment,
                   config, error, coverage, counts, scores, ij, dp_bt>>

\* get_matcher('overlap', min_overlap_sec=...) followed by matcher.match
OverlapMatch ==
    /\ pc = "ready"
    /\ \E min_overlap_sec \in MinOverlaps :
          /\ matcher' = OverlapConfig("overlap", min_overlap_sec)
          /\ matched_pairs' = OverlapMatcher_match(gen_events, ref_events, min_overlap_sec)
          /\ first_pairs' =
                Some(OverlapMatcher_match(gen_events, ref_events, min_overlap_sec))
    /\ pc' = "done"
    /\ calls' = <<"inputs">>
    /\ UNCHANGED <<gen_events, ref_events, uf, sim_matrix, alignment,
                   config, error, coverage, counts, scores, ij, dp_bt>>

\* DPMatcher(...) followed by matcher.match
DPMatch ==
    /\ pc = "ready"
    /\ \E self \in DPConfigs :
          \E r \in {DPMatcher_match(self, gen_events, ref_events)} :
              /\ matcher' = self
              /\ error' = r.error
              /\ IF r.error # None
                 THEN /\ pc' = "raised"
                      /\ UNCHANGED <<matched_pairs, first_pairs, sim_matrix, alignment, calls>>
                 ELSE /\ pc' = "done"
                      /\ matched_pairs' = r.pairs
                      /\ first_pairs' = Some(r.pairs)
                      /\ sim_matrix' = r.sim_matrix
                      /\ alignment' = r.alignment
                      /\ calls' = <<"inputs">>
    /\ UNCHANGED <<gen_events, ref_events, uf, config, coverage, counts, scores, ij, dp_bt>>

\* the objects of the caller of match: the matcher, the two input lists, and the two
\* lists of another pair of inputs
CallerObjects ==
    [matcher |-> matcher, generated |-> gen_events, reference |-> ref_events,
     other_generated |-> ScenarioBGen, other_reference |-> ScenarioBRef]

\* the lists passed by a call made between two calls on the inputs: the inputs
\* exchanged, or the other pair
OtherInputs == {<<"reference", "generated">>, <<"other_generated", "other_reference">>}

\* matcher.match(gen_events, ref_events)
MatchInputs ==
    /\ pc \in {"constructed", "done", "other"}
    /\ Len(calls) < MaxCalls
    /\ \E out \in {Called(Entered(CallerObjects, "matcher", "generated", "reference"))} :
           /\ gen_events' = out.objects.generated
           /\ ref_events' = out.objects.reference
           /\ matcher' = out.objects.matcher
           /\ error' = out.error
           /\ IF out.error # None
              THEN /\ pc' = "raised"
                   /\ UNCHANGED <<matched_pairs, first_pairs, uf, sim_matrix, alignment, calls>>
              ELSE /\ pc' = "done"
                   /\ matched_pairs' = out.value
                   /\ first_pairs' = IF calls = <<>> THEN Some(out.value) ELSE first_pairs
                   /\ uf' = Local(out, "uf")
                   /\ sim_matrix' = Local(out, "sim_matrix")
                   /\ alignment' = Local(out, "alignment")
                   /\ calls' = Append(calls, "inputs")
    /\ UNCHANGED <<config, coverage, counts, scores, ij, dp_bt>>

\* matcher.match called on other lists, on the matcher object already in use
MatchOther ==
    /\ pc \in {"done", "other"}
    /\ Len(calls) < MaxCalls
    /\ \E other \in OtherInputs :
          \E out \in {Called(Entered(CallerObjects, "matcher", other[1], other[2]))} :
              /\ gen_events' = out.objects.generated
              /\ ref_events' = out.objects.reference
              /\ matcher' = out.objects.matcher
              /\ error' = out.error
              /\ IF out.error # None
                 THEN /\ pc' = "raised"
                      /\ UNCHANGED <<matched_pairs, uf, sim_matrix, alignment, calls>>
                 ELSE /\ pc' = "other"
                      /\ matched_pairs' = out.value
                      /\ uf' = Local(out, "uf")
                      /\ sim_matrix' = Local(out, "sim_matrix")
                      /\ alignment' = Local(out, "alignment")
                      /\ calls' = Append(calls, "other")
    /\ UNCHANGED <<first_pairs, config, coverage, counts, scores, ij, dp_bt>>

\* cli.run_evaluation from the loaded inputs to the scores, or to the exception
RunEvaluation ==
    /\ pc = "ready"
    /\ Loaded(gen_events, ref_events)
    /\ \E cfg \in MatcherConfigs :
          \E out \in {run_evaluation(cfg, gen_events, ref_events)} :
              /\ config' = Some(cfg)
              /\ error' = out.error
              /\ matcher' = out.matcher
              /\ coverage' = out.coverage
              /\ counts' = out.counts
              /\ scores' = out.scores
              /\ IF out.error # None
                 THEN /\ pc' = "raised"
                      /\ UNCHANGED <<matched_pairs, first_pairs, calls,
                                     uf, sim_matrix, alignment>>
                 ELSE /\ pc' = "evaluated"
                      /\ calls' = <<"inputs">>
                      /\ first_pairs' = Some(out.result[1].pairs)
                      /\ matched_pairs' = out.result[1].pairs
                      /\ uf' = out.result[1].uf
                      /\ sim_matrix' = out.result[1].sim_matrix
                      /\ alignment' = out.result[1].alignment
    /\ UNCHANGED <<gen_events, ref_events, ij, dp_bt>>

Next == ClusterMatch \/ OverlapMatch \/ DPMatch \/ RunEvaluation

Spec == Init /\ [][Next]_vars

(***************************************************************************)
(* The same inputs under the matchers built on overlaps alone, under       *)
(* DPMatcher alone and under run_evaluation alone.                         *)
(***************************************************************************)
IntervalNext == ClusterMatch \/ OverlapMatch

IntervalSpec == Init /\ [][IntervalNext]_vars

DPNext == DPMatch

DPSpec == Init /\ [][DPNext]_vars

EvaluationNext == RunEvaluation

EvaluationSpec == Init /\ [][EvaluationNext]_vars

(***************************************************************************)
(* One matcher object called repeatedly: a first call on the inputs, then  *)
(* calls on other lists and further calls on the inputs, in any number and *)
(* order up to MaxCalls.  The matcher is any of those the constructors     *)
(* give; the inputs hold at most MaxCallEvents events, or are lists on     *)
(* which the sorts of the matchers change the order.  Each call runs on    *)
(* the objects of the caller, and the lists and the matcher are afterwards *)
(* what the call left in them.                                             *)
(***************************************************************************)
\* a generated event that overlaps the second reference event more than the first
ReorderedGen == <<ADEvent(0, 2, Str("cat"), 0)>>
ReorderedRef == <<ADEvent(0, 1, Str("a b"), 0), ADEvent(0, 2, Str("cat"), 1)>>

CallMatchers ==
    {OverlapConfig(name, min_overlap_sec) :
        name \in {"cluster", "overlap"}, min_overlap_sec \in MinOverlaps} \cup DPConfigs

CallInit ==
    /\ \/ /\ gen_events = ReorderedGen
          /\ ref_events = ReorderedRef
       \/ /\ gen_events = RoundingGen
          /\ ref_events = RoundingRef
       \/ /\ gen_events \in EventLists(MaxGen)
          /\ ref_events \in EventLists(MaxRef)
          /\ Len(gen_events) + Len(ref_events) <= MaxCallEvents
    /\ pc = "constructed"
    /\ matcher \in CallMatchers
    /\ matched_pairs = <<>>
    /\ uf = None
    /\ sim_matrix = None
    /\ alignment = None
    /\ first_pairs = None
    /\ calls = <<>>
    /\ config = None
    /\ error = None
    /\ coverage = None
    /\ counts = None
    /\ scores = None
    /\ ij = None
    /\ dp_bt = None

CallNext == MatchInputs \/ MatchOther

CallSpec == CallInit /\ [][CallNext]_vars

(***************************************************************************)
(* The scores of run_evaluation as a function of its four counts: the      *)
(* counts are drawn from 0 .. MaxTotalGen and 0 .. MaxTotalRef, matched    *)
(* counts not above their totals.                                          *)
(***************************************************************************)
StatsInit ==
    /\ gen_events = <<>>
    /\ ref_events = <<>>
    /\ pc = "counted"
    /\ matcher = NoMatcher
    /\ matched_pairs = <<>>
    /\ uf = None
    /\ sim_matrix = None
    /\ alignment = None
    /\ first_pairs = None
    /\ calls = <<>>
    /\ config = None
    /\ error = None
    /\ coverage = None
    /\ \E total_gen \in 0..MaxTotalGen, total_ref \in 0..MaxTotalRef :
          \E matched_gen \in 0..total_gen, matched_ref \in 0..total_ref :
              counts = Some(Counts(total_gen, total_ref, matched_gen, matched_ref))
    /\ scores = None
    /\ ij = None
    /\ dp_bt = None

\* lines 199-201 on the counts of lines 194-197
ComputeScores ==
    /\ pc = "counted"
    /\ scores' = Some(Scores(counts[1]))
    /\ pc' = "scored"
    /\ UNCHANGED <<gen_events, ref_events, matcher, matched_pairs, uf, sim_matrix,
                   alignment, first_pairs, calls, config, error, coverage, counts, ij, dp_bt>>

StatsNext == ComputeScores

StatsSpec == StatsInit /\ [][StatsNext]_vars

(***************************************************************************)
(* The matchers and run_evaluation on the inputs of Spec, together with    *)
(* lines 199-201 on the counts of StatsSpec, which go beyond the totals    *)
(* that the inputs of Spec give, to quotients that a float rounds.         *)
(***************************************************************************)
CoverageInit == Init \/ StatsInit

CoverageNext == ClusterMatch \/ OverlapMatch \/ DPMatch \/ RunEvaluation \/ ComputeScores

CoverageSpec == CoverageInit /\ [][CoverageNext]_vars

(***************************************************************************)
(* matchers.py: a UnionFind object under any sequence of union and find    *)
(* calls.  uf holds the object, calls the set of pairs passed to union so  *)
(* far (at most MaxPairs different pairs over at most MaxIndices indices), *)
(* pc the last method called.                                              *)
(***************************************************************************)
UnionFindInit ==
    /\ gen_events = <<>>
    /\ ref_events = <<>>
    /\ pc = "init"
    /\ matcher = NoMatcher
    /\ matched_pairs = <<>>
    /\ \E n \in 1..MaxIndices : uf = Some(UnionFind(n))
    /\ sim_matrix = None
    /\ alignment = None
    /\ first_pairs = None
    /\ calls = {}
    /\ config = None
    /\ error = None
    /\ coverage = None
    /\ counts = None
    /\ scores = None
    /\ ij = None
    /\ dp_bt = None

\* uf.union(x, y)
CallUnion ==
    /\ pc \in {"init", "union", "find"}
    /\ \E x, y \in DOMAIN uf[1].parent :
          /\ Cardinality(calls \cup {<<x, y>>}) <= MaxPairs
          /\ uf' = Some(union(uf[1], x, y))
          /\ calls' = calls \cup {<<x, y>>}
    /\ pc' = "union"
    /\ UNCHANGED <<gen_events, ref_events, matcher, matched_pairs, sim_matrix, alignment,
                   first_pairs, config, error, coverage, counts, scores, ij, dp_bt>>

\* uf.find(x)
CallFind ==
    /\ pc \in {"init", "union", "find"}
    /\ \E x \in DOMAIN uf[1].parent : uf' = Some(find(uf[1], x))
    /\ pc' = "find"
    /\ UNCHANGED <<gen_events, ref_events, matcher, matched_pairs, sim_matrix, alignment,
                   first_pairs, calls, config, error, coverage, counts, scores, ij, dp_bt>>

UnionFindNext == CallUnion \/ CallFind

UnionFindSpec == UnionFindInit /\ [][UnionFindNext]_vars

(***************************************************************************)
(* matchers.py: DPMatcher._dp_align step by step, called on the similarity *)
(* matrix of any two lists, empty ones included, by a matcher with         *)
(* penalties, with penalties above any score or with rewards for the gaps. *)
(* The state after lines                                                   *)
(* 413-445: the dp and bt tables are filled (dp_bt), alignment = [] and    *)
(* i, j = n, m (ij).                                                       *)
(* Each pass of the while loop is one step; when the loop exits the list   *)
(* is reversed and returned.  The loop is sequential code that runs to its *)
(* end, hence the weak fairness of the steps.                              *)
(***************************************************************************)
DPAlignConfigs ==
    {DPEighths(2, 6, -2, -1, FALSE), DPEighths(2, 6, 5, 4, FALSE),
     DPEighths(1, 5, 1, 1, FALSE)}

DPAlignInit ==
    /\ gen_events \in EventLists(MaxGen)
    /\ ref_events \in EventLists(MaxRef)
    /\ Len(gen_events) + Len(ref_events) <= MaxEvents
    /\ pc = "backtracking"
    /\ matcher \in DPAlignConfigs
    /\ matched_pairs = <<>>
    /\ uf = None
    /\ sim_matrix = Some(build_similarity_matrix(matcher, gen_events, ref_events).value)
    /\ alignment = Some(<<>>)
    /\ first_pairs = None
    /\ calls = <<>>
    /\ config = None
    /\ error = None
    /\ coverage = None
    /\ counts = None
    /\ scores = None
    /\ ij = Some(<<Len(gen_events), Len(ref_events)>>)
    /\ dp_bt = Some(dp_tables(matcher, sim_matrix[1]))

\* lines 446-458: one pass of the loop
BacktrackStep ==
    /\ pc = "backtracking"
    /\ ij[1][1] > 0 \/ ij[1][2] > 0
    /\ \E step \in {backtrack_step(matcher, sim_matrix[1], dp_bt[1].bt,
                                    ij[1][1], ij[1][2])} :
          /\ alignment' = Some(Append(alignment[1], step.entry))
          /\ ij' = Some(<<step.i, step.j>>)
    /\ UNCHANGED <<gen_events, ref_events, pc, matcher, matched_pairs, uf, sim_matrix,
                   first_pairs, calls, config, error, coverage, counts, scores, dp_bt>>

\* lines 446 and 460-461: the loop exits, the list is reversed and returned
BacktrackReturn ==
    /\ pc = "backtracking"
    /\ ~(ij[1][1] > 0 \/ ij[1][2] > 0)
    /\ alignment' = Some(Reverse(alignment[1]))
    /\ pc' = "aligned"
    /\ UNCHANGED <<gen_events, ref_events, matcher, matched_pairs, uf, sim_matrix,
                   first_pairs, calls, config, error, coverage, counts, scores, ij, dp_bt>>

DPAlignNext == BacktrackStep \/ BacktrackReturn

DPAlignSpec == DPAlignInit /\ [][DPAlignNext]_vars /\ WF_vars(DPAlignNext)

(***************************************************************************)
(* Vocabulary of the properties.                                           *)
(***************************************************************************)
Ran(name) == pc = "done" /\ matcher.name = name

AllGenIndices == Flatten([k \in 1..Len(matched_pairs) |-> matched_pairs[k].gen_indices])
AllRefIndices == Flatten([k \in 1..Len(matched_pairs) |-> matched_pairs[k].ref_indices])

\* every index of the input occurs exactly once in flat, and nothing else does
CoversOnce(flat, input) ==
    /\ Len(flat) = Len(input)
    /\ Range(flat) = Range(Indices(input))

IsSortedByStart(s) == \A k \in 1..(Len(s) - 1) : s[k].start <= s[k + 1].start

Reorderings(s) ==
    {[k \in 1..Len(s) |-> s[f[k]]] :
        f \in {g \in [1..Len(s) -> 1..Len(s)] : \A a, b \in 1..Len(s) : a # b => g[a] # g[b]}}

\* position k of the unified list (1-based) is linked to position l
Linked(k, l) ==
    LET events == UnifiedEvents(gen_events, ref_events)
    IN  overlaps_with(events[k].event, events[l].event, matcher.min_overlap_sec)

\* the component of position k in the structure the cluster matcher leaves
Component(k) ==
    LET n == Len(gen_events) + Len(ref_events)
    IN  {l \in 1..n : FindRoot(uf[1].parent, l - 1) = FindRoot(uf[1].parent, k - 1)}

\* record rec holds the event at position k of the unified list
Holds(rec, k) ==
    IF k <= Len(gen_events)
    THEN gen_events[k].index \in Range(rec.gen_indices)
    ELSE ref_events[k - Len(gen_events)].index \in Range(rec.ref_indices)

(***************************************************************************)
(* C1: the records ClusterMatcher.match returns hold every generated index *)
(* of the input exactly once and every reference index exactly once, and   *)
(* no other index.                                                         *)
(***************************************************************************)
C1_ClusterIndexCoverage ==
    Ran("cluster") =>
        /\ CoversOnce(AllGenIndices, gen_events)
        /\ CoversOnce(AllRefIndices, ref_events)

C1_Witness ==
    /\ Ran("cluster")
    /\ Len(gen_events) = 2
    /\ gen_events[1].index = 1
    /\ \E k \in 1..Len(matched_pairs) :
          /\ matched_pairs[k].match_type = "cluster"
          /\ Len(matched_pairs[k].gen_indices) = 2
    /\ C1_ClusterIndexCoverage

(***************************************************************************)
(* C2 as claimed: the records DPMatcher.match returns hold every generated *)
(* index and every reference index of the input exactly once, also when    *)
(* exactly one input is empty.                                             *)
(***************************************************************************)
C2_Original ==
    Ran("dp") =>
        /\ CoversOnce(AllGenIndices, gen_events)
        /\ CoversOnce(AllRefIndices, ref_events)

(***************************************************************************)
(* C2 amended: when both inputs are non-empty (or both empty) the records  *)
(* hold every generated and every reference index exactly once; when       *)
(* exactly one input is empty the result is [] and holds no index.         *)
(***************************************************************************)
C2_DPIndexCoverage ==
    Ran("dp") =>
        IF (gen_events = <<>>) # (ref_events = <<>>)
        THEN matched_pairs = <<>>
        ELSE /\ CoversOnce(AllGenIndices, gen_events)
             /\ CoversOnce(AllRefIndices, ref_events)

C2_Witness ==
    /\ Ran("dp")
    /\ Len(gen_events) = 1
    /\ Len(ref_events) = 2
    /\ ref_events[1].index = 1
    /\ matched_pairs[1].match_type = "dp_ref_gap"
    /\ C2_DPIndexCoverage

(***************************************************************************)
(* C3: OverlapMatcher.match returns one record per generated event, in     *)
(* input order, holding that event's index alone; the record is a matched  *)
(* 'overlap' record iff some reference event overlaps the generated event  *)
(* by at least min_overlap_sec, else an unmatched 'no_overlap' record with *)
(* empty reference fields.                                                 *)
(***************************************************************************)
C3_OverlapOnePerGenerated ==
    Ran("overlap") =>
        /\ Len(matched_pairs) = Len(gen_events)
        /\ \A k \in 1..Len(gen_events) :
              LET rec == matched_pairs[k]
                  some == \E l \in 1..Len(ref_events) :
                             overlap_duration(gen_events[k], ref_events[l]) * TimeDen
                                 >= matcher.min_overlap_sec
              IN  /\ rec.gen_indices = <<gen_events[k].index>>
                  /\ rec.gen_events = <<gen_events[k]>>
                  /\ rec.matched <=> some
                  /\ rec.matched => rec.match_type = "overlap"
                  /\ ~rec.matched =>
                        /\ rec.match_type = "no_overlap"
                        /\ rec.ref_events = <<>>
                        /\ rec.ref_indices = <<>>
                        /\ rec.combined_ref_text = <<>>
                        /\ rec.ref_start = None
                        /\ rec.ref_end = None

C3_Witness ==
    /\ Ran("overlap")
    /\ Len(gen_events) = 2
    /\ gen_events[1].index = 1
    /\ matched_pairs[1].match_type = "no_overlap"
    /\ matched_pairs[2].match_type = "overlap"
    /\ ref_events # <<>>

(***************************************************************************)
(* C4: in ClusterMatcher.match, if A is linked to B and B to C while A and *)
(* C are not linked directly, then A, B and C are in one component, and    *)
(* when that component has both origins one 'cluster' record holds all     *)
(* three.                                                                  *)
(***************************************************************************)
Chain(a, b, c) == Linked(a, b) /\ Linked(b, c) /\ ~Linked(a, c)

C4_ClusterTransitive ==
    Ran("cluster") =>
        \A a, b, c \in 1..(Len(gen_events) + Len(ref_events)) :
            Chain(a, b, c) =>
                /\ b \in Component(a)
                /\ c \in Component(a)
                /\ (\E k, l \in Component(a) : k <= Len(gen_events) /\ l > Len(gen_events))
                      => \E r \in 1..Len(matched_pairs) :
                            /\ matched_pairs[r].match_type = "cluster"
                            /\ Holds(matched_pairs[r], a)
                            /\ Holds(matched_pairs[r], b)
                            /\ Holds(matched_pairs[r], c)

C4_Witness ==
    /\ Ran("cluster")
    /\ Len(gen_events) = 2
    /\ Len(ref_events) = 1
    /\ Chain(1, 3, 2)
    /\ Len(matched_pairs) = 1
    /\ matched_pairs[1].match_type = "cluster"

(***************************************************************************)
(* C5: in every record of every matcher, matched implies both event lists  *)
(* are non-empty; gen_start and gen_end are None iff gen_events is empty,  *)
(* ref_start and ref_end are None iff ref_events is empty; match_type is   *)
(* one of the eight names, and matched holds exactly for cluster, overlap  *)
(* and dp_match.                                                           *)
(***************************************************************************)
MatchTypes == {"cluster", "generated_only", "reference_only", "overlap", "no_overlap",
               "dp_match", "dp_gen_gap", "dp_ref_gap"}

C5_RecordInvariants ==
    pc = "done" =>
        \A k \in 1..Len(matched_pairs) :
            LET rec == matched_pairs[k]
            IN  /\ rec.matched => (rec.gen_events # <<>> /\ rec.ref_events # <<>>)
                /\ (rec.gen_start = None) <=> (rec.gen_events = <<>>)
                /\ (rec.gen_end = None) <=> (rec.gen_events = <<>>)
                /\ (rec.ref_start = None) <=> (rec.ref_events = <<>>)
                /\ (rec.ref_end = None) <=> (rec.ref_events = <<>>)
                /\ rec.match_type \in MatchTypes
                /\ rec.matched <=> rec.match_type \in {"cluster", "overlap", "dp_match"}

C5_Witness ==
    /\ Ran("cluster")
    /\ \E k, l \in 1..Len(matched_pairs) :
          /\ matched_pairs[k].match_type = "cluster"
          /\ matched_pairs[l].match_type = "reference_only"

(***************************************************************************)
(* C6 as claimed: ClusterMatcher.match returns [] whenever one or both     *)
(* inputs are empty.                                                       *)
(***************************************************************************)
C6_Original ==
    (Ran("cluster") /\ (gen_events = <<>> \/ ref_events = <<>>)) => matched_pairs = <<>>

(***************************************************************************)
(* C6 amended: ClusterMatcher.match returns [] when both inputs are empty; *)
(* when exactly one is empty it returns one unmatched record per event of  *)
(* the other: generated_only records if the reference input is empty,      *)
(* reference_only records if the generated input is empty.                 *)
(***************************************************************************)
C6_ClusterEmptyInputs ==
    Ran("cluster") =>
        /\ (gen_events = <<>> /\ ref_events = <<>>) => matched_pairs = <<>>
        /\ (gen_events # <<>> /\ ref_events = <<>>) =>
              /\ Len(matched_pairs) = Len(gen_events)
              /\ \A k \in 1..Len(matched_pairs) :
                    matched_pairs[k].match_type = "generated_only"
        /\ (gen_events = <<>> /\ ref_events # <<>>) =>
              /\ Len(matched_pairs) = Len(ref_events)
              /\ \A k \in 1..Len(matched_pairs) :
                    matched_pairs[k].match_type = "reference_only"

C6_Witness ==
    /\ Ran("cluster")
    /\ Len(gen_events) = 2
    /\ ref_events = <<>>
    /\ Linked(1, 2)
    /\ Len(matched_pairs) = 2

(***************************************************************************)
(* C7: DPMatcher.match returns [] when the generated or the reference      *)
(* input is empty, building neither a similarity matrix nor an alignment,  *)
(* so no gap record is emitted for the non-empty side.                     *)
(***************************************************************************)
C7_DPEmptyInputs ==
    (Ran("dp") /\ (gen_events = <<>> \/ ref_events = <<>>)) =>
        /\ matched_pairs = <<>>
        /\ sim_matrix = None
        /\ alignment = None

C7_Witness ==
    /\ Ran("dp")
    /\ Len(gen_events) = 2
    /\ ref_events = <<>>
    /\ matched_pairs = <<>>

(***************************************************************************)
(* C8 as claimed: for inputs sorted by start, the list DPMatcher.match     *)
(* returns is non-decreasing in the key gen_start if the record has        *)
(* generated events, else ref_start.  Stated for negative gap penalties,   *)
(* the ones the matcher expects, where it already fails.                   *)
(***************************************************************************)
TimeKey(rec) == IF rec.gen_events # <<>> THEN rec.gen_start[1] ELSE rec.ref_start[1]

C8_Original ==
    (/\ Ran("dp") /\ IsSortedByStart(gen_events) /\ IsSortedByStart(ref_events)
     /\ FloatGt(FloatZero, matcher.gap_penalty_gen)
     /\ FloatGt(FloatZero, matcher.gap_penalty_ref)) =>
        \A k \in 1..(Len(matched_pairs) - 1) :
            TimeKey(matched_pairs[k]) <= TimeKey(matched_pairs[k + 1])

(***************************************************************************)
(* C8 amended: for inputs sorted by start, gen_start is non-decreasing     *)
(* along the records that have generated events and ref_start is           *)
(* non-decreasing along the records that have reference events; the list   *)
(* is in alignment order and is not sorted by the mixed key.               *)
(***************************************************************************)
C8_DPOrderPerOrigin ==
    (Ran("dp") /\ IsSortedByStart(gen_events) /\ IsSortedByStart(ref_events)) =>
        \A k, l \in 1..Len(matched_pairs) :
            k < l =>
                /\ (matched_pairs[k].gen_events # <<>> /\ matched_pairs[l].gen_events # <<>>)
                      => matched_pairs[k].gen_start[1] <= matched_pairs[l].gen_start[1]
                /\ (matched_pairs[k].ref_events # <<>> /\ matched_pairs[l].ref_events # <<>>)
                      => matched_pairs[k].ref_start[1] <= matched_pairs[l].ref_start[1]

C8_Witness ==
    /\ Ran("dp")
    /\ IsSortedByStart(gen_events)
    /\ IsSortedByStart(ref_events)
    /\ Len(matched_pairs) = 2
    /\ matched_pairs[1].match_type = "dp_match"
    /\ matched_pairs[2].match_type = "dp_ref_gap"
    /\ matched_pairs[1].ref_start[1] < matched_pairs[2].ref_start[1]
    /\ TimeKey(matched_pairs[1]) > TimeKey(matched_pairs[2])

(***************************************************************************)
(* C9: for ClusterMatcher and OverlapMatcher, the record that groups a     *)
(* given set of events has the same combined_gen_text and the same         *)
(* combined_ref_text for every order in which the generated and the        *)
(* reference events are supplied, also when events share a start time.     *)
(***************************************************************************)
Rematch(gen, ref) ==
    IF matcher.name = "cluster"
    THEN ClusterMatcher_match(gen, ref, matcher.min_overlap_sec).pairs
    ELSE OverlapMatcher_match(gen, ref, matcher.min_overlap_sec)

C9_CombinedTextOrderIndependent ==
    (Ran("cluster") \/ Ran("overlap")) =>
        \A pg \in Reorderings(gen_events), pr \in Reorderings(ref_events) :
            LET other == Rematch(pg, pr)
            IN  \A k \in 1..Len(matched_pairs), l \in 1..Len(other) :
                    (/\ Range(matched_pairs[k].gen_indices) = Range(other[l].gen_indices)
                     /\ Range(matched_pairs[k].ref_indices) = Range(other[l].ref_indices))
                    => /\ matched_pairs[k].combined_gen_text = other[l].combined_gen_text
                       /\ matched_pairs[k].combined_ref_text = other[l].combined_ref_text

(***************************************************************************)
(* C10 as claimed: on Scenario A with min_overlap_sec = 0.5, ClusterMatcher*)
(* and OverlapMatcher each return two records, a matched one spanning      *)
(* (0,5) and (1,4) and one for (10,15,'dog') of type 'generated_only'.     *)
(***************************************************************************)
ScenarioA(name) ==
    /\ Ran(name)
    /\ matcher.min_overlap_sec = 1
    /\ gen_events = ScenarioAGen
    /\ ref_events = ScenarioARef

ScenarioARecords(unmatched_type) ==
    /\ Len(matched_pairs) = 2
    /\ \E k, l \in 1..2 :
          /\ k # l
          /\ matched_pairs[k].matched
          /\ matched_pairs[k].gen_start = Some(0) /\ matched_pairs[k].gen_end = Some(5)
          /\ matched_pairs[k].ref_start = Some(1) /\ matched_pairs[k].ref_end = Some(4)
          /\ ~matched_pairs[l].matched
          /\ matched_pairs[l].gen_events = <<ScenarioAGen[2]>>
          /\ matched_pairs[l].match_type = unmatched_type

C10_Original ==
    (ScenarioA("cluster") \/ ScenarioA("overlap")) => ScenarioARecords("generated_only")

(***************************************************************************)
(* C10 amended: on Scenario A with min_overlap_sec = 0.5 each matcher      *)
(* returns two records, a matched one spanning (0,5) and (1,4) and an      *)
(* unmatched one for (10,15,'dog') whose match_type is 'generated_only'    *)
(* for ClusterMatcher and 'no_overlap' for OverlapMatcher.                 *)
(***************************************************************************)
C10_ScenarioA ==
    /\ ScenarioA("cluster") => ScenarioARecords("generated_only")
    /\ ScenarioA("overlap") => ScenarioARecords("no_overlap")

C10_Witness ==
    /\ ScenarioA("overlap")
    /\ matched_pairs[1].match_type = "overlap"
    /\ matched_pairs[2].match_type = "no_overlap"

(***************************************************************************)
(* C11: for DPMatcher with one generated event g and one reference event   *)
(* r, if combined(g, r) >= gap_penalty_gen + gap_penalty_ref the result is *)
(* exactly one dp_match record whose score is combined(g, r); on Scenario  *)
(* B with w_time = 0, w_text = 1 and negative gap penalties the score of   *)
(* that record is 1.0.                                                     *)
(***************************************************************************)
OneToOne == Ran("dp") /\ Len(gen_events) = 1 /\ Len(ref_events) = 1

DiagonalNotWorse ==
    /\ combined_similarity(matcher, gen_events[1], ref_events[1]).error = None
    /\ FloatGe(combined_similarity(matcher, gen_events[1], ref_events[1]).value,
               FloatAdd(matcher.gap_penalty_gen, matcher.gap_penalty_ref))

ScenarioB ==
    /\ Ran("dp")
    /\ gen_events = ScenarioBGen
    /\ ref_events = ScenarioBRef
    /\ matcher.w_time = FloatZero
    /\ matcher.w_text = FloatFromInt(1)
    /\ FloatGt(FloatZero, matcher.gap_penalty_gen)
    /\ FloatGt(FloatZero, matcher.gap_penalty_ref)

C11_DPSinglePair ==
    /\ (OneToOne /\ DiagonalNotWorse) =>
          /\ Len(matched_pairs) = 1
          /\ matched_pairs[1].match_type = "dp_match"
          /\ matched_pairs[1].matched
          /\ matched_pairs[1].gen_events = gen_events
          /\ matched_pairs[1].ref_events = ref_events
          /\ matched_pairs[1].score
                = Some(FloatAdd(
                           FloatMul(matcher.w_time,
                                    IF matcher.time_soft
                                    THEN soft_time_similarity(matcher, gen_events[1],
                                                              ref_events[1]).value
                                    ELSE temporal_iou(gen_events[1], ref_events[1])),
                           FloatMul(matcher.w_text,
                                    text_sim_func(matcher, gen_events[1].text,
                                                  ref_events[1].text))))
    /\ ScenarioB =>
          /\ Len(matched_pairs) = 1
          /\ matched_pairs[1].match_type = "dp_match"
          /\ matched_pairs[1].score = Some(FloatFromInt(1))

C11_Witness ==
    /\ ScenarioB
    /\ DiagonalNotWorse
    /\ matched_pairs[1].match_type = "dp_match"
    /\ matched_pairs[1].score = Some(FloatFromInt(1))

(***************************************************************************)
(* C12: in the records of OverlapMatcher.match a reference index is in the *)
(* ref_indices of exactly those records whose generated event it overlaps  *)
(* by at least min_overlap_sec, so it may be in several records, and a     *)
(* reference event that overlaps no generated event that much is in no     *)
(* record: every record holds a generated event, none is reference-only.   *)
(***************************************************************************)
Claims(k, l) ==
    overlap_duration(gen_events[k], ref_events[l]) * TimeDen >= matcher.min_overlap_sec

C12_OverlapReferenceSharing ==
    Ran("overlap") =>
        /\ Len(matched_pairs) = Len(gen_events)
        /\ \A k \in 1..Len(matched_pairs) :
              /\ matched_pairs[k].gen_events # <<>>
              /\ matched_pairs[k].match_type # "reference_only"
              /\ \A l \in 1..Len(ref_events) :
                    ref_events[l].index \in Range(matched_pairs[k].ref_indices)
                        <=> Claims(k, l)

C12_Witness ==
    /\ Ran("overlap")
    /\ Len(gen_events) = 2
    /\ Len(ref_events) = 1
    /\ ref_events[1].index \in Range(matched_pairs[1].ref_indices)
    /\ ref_events[1].index \in Range(matched_pairs[2].ref_indices)

C12_WitnessUnclaimed ==
    /\ Ran("overlap")
    /\ Len(gen_events) = 1
    /\ Len(ref_events) = 2
    /\ Claims(1, 1)
    /\ ~Claims(1, 2)
    /\ Len(matched_pairs) = 1
    /\ matched_pairs[1].ref_indices = <<ref_events[1].index>>

(***************************************************************************)
(* C13: calculate_coverage_stats sets gen_matched to the number of         *)
(* distinct indices in the gen_indices of the records with matched = true  *)
(* (an index in several matched records counts once, the indices of        *)
(* unmatched records do not count), gen_unmatched to gen_total minus       *)
(* gen_matched, and ref_matched, ref_unmatched likewise from ref_indices   *)
(* and the reference total.  Stated of the statistics run_evaluation       *)
(* computed, and of the function applied to the result of a direct call.   *)
(***************************************************************************)
Evaluated == pc = "evaluated"

CoverageOfRecords ==
    IF Evaluated THEN coverage[1]
    ELSE calculate_coverage_stats(gen_events, ref_events, matched_pairs)

MatchedUnion(field) ==
    UNION {Range(matched_pairs[k][field]) :
              k \in {l \in 1..Len(matched_pairs) : matched_pairs[l].matched}}

C13_CoverageCounts ==
    (Evaluated \/ pc = "done") =>
        LET cov == CoverageOfRecords
        IN  /\ cov.gen_total = Len(gen_events)
            /\ cov.ref_in_range = Len(ref_events)
            /\ cov.gen_matched = Cardinality(MatchedUnion("gen_indices"))
            /\ cov.gen_unmatched = Len(gen_events) - cov.gen_matched
            /\ cov.ref_matched = Cardinality(MatchedUnion("ref_indices"))
            /\ cov.ref_unmatched = Len(ref_events) - cov.ref_matched

C13_Witness ==
    /\ Evaluated
    /\ matcher.name = "overlap"
    /\ Len(matched_pairs) = 2
    /\ matched_pairs[1].matched
    /\ matched_pairs[2].matched
    /\ matched_pairs[1].ref_indices = matched_pairs[2].ref_indices
    /\ coverage[1].gen_matched = 2
    /\ coverage[1].ref_matched = 1
    /\ coverage[1].ref_unmatched = 0

(***************************************************************************)
(* C14: precision = gen_matched / total_generated, recall = ref_matched /  *)
(* total_reference and f1 = 2 P R / (P + R), each 0.0 when its denominator *)
(* is 0; for 10 generated with 7 matched and 8 reference with 4 matched,   *)
(* precision is 7/10, recall 1/2 and f1 7/12.                              *)
(***************************************************************************)
Scored == pc = "scored"

ScenarioC == Scored /\ counts = Some(Counts(10, 8, 7, 4))

C14_PrecisionRecallF1 ==
    /\ Scored =>
          LET c == counts[1]
              precision == scores[1].precision
              recall == scores[1].recall
              f1 == scores[1].f1_score
          IN  /\ IF c.total_gen = 0 THEN precision = FloatZero
                 ELSE precision = FloatDiv(c.matched_gen, c.total_gen)
              /\ IF c.total_ref = 0 THEN recall = FloatZero
                 ELSE recall = FloatDiv(c.matched_ref, c.total_ref)
              /\ IF precision = FloatZero /\ recall = FloatZero THEN f1 = FloatZero
                 ELSE f1 = FloatQuot(FloatMul(FloatMul(FloatFromInt(2), precision), recall),
                                     FloatAdd(precision, recall))
    /\ ScenarioC =>
          /\ scores[1].precision = FloatDiv(7, 10)
          /\ scores[1].recall = FloatDiv(1, 2)
          /\ scores[1].f1_score = FloatDiv(7, 12)

C14_Witness ==
    /\ ScenarioC
    /\ scores[1].f1_score = FloatDiv(7, 12)

C14_WitnessZero ==
    /\ Scored
    /\ counts[1].total_gen = 0
    /\ counts[1].matched_ref > 0
    /\ scores[1].precision = FloatZero
    /\ scores[1].f1_score = FloatZero

\* counts whose F1 is not the double nearest to 2 P R / (P + R): P = 1, R = 1/5, and F1
\* is 0.33333333333333337
C14_WitnessRounded ==
    /\ Scored
    /\ counts = Some(Counts(1, 5, 1, 1))
    /\ scores[1].f1_score # FloatDiv(1, 3)
    /\ scores[1].f1_score = FloatAdd(FloatDiv(1, 3), FloatExact(FALSE, <<1>>, -54))

(***************************************************************************)
(* C15: for every method in {cluster, overlap, dp} the options that        *)
(* run_evaluation passes to get_matcher are accepted by the constructor of *)
(* the selected matcher, so a matcher of the selected algorithm is built   *)
(* and its match is run; a method name outside the three raises            *)
(* ValueError in get_matcher.  (Names are compared in lower case, as       *)
(* get_matcher does.)                                                      *)
(***************************************************************************)
C15_MatcherConstructed ==
    (config # None /\ pc \in {"evaluated", "raised"}) =>
        LET method == lower(config[1].method)
        IN  IF method \in {Str("cluster"), Str("overlap"), Str("dp")}
            THEN /\ pc = "evaluated"
                 /\ error = None
                 /\ Str(matcher.name) = method
                 /\ calls = <<"inputs">>
            ELSE /\ pc = "raised"
                 /\ error = Some("ValueError")

(***************************************************************************)
(* C16: a call of match leaves both input sequences and every event in     *)
(* them as they were, and a matcher carries nothing from one call to the   *)
(* next: the lists and the matcher object are after every call what they   *)
(* were before it, and whenever match was last called on the inputs, after *)
(* any calls on other lists, the list it returned equals the list of the   *)
(* first call, which is the list the matcher's configuration and the two   *)
(* sequences determine.                                                    *)
(***************************************************************************)
InputsUntouched == gen_events' = gen_events /\ ref_events' = ref_events

MatcherUntouched == matcher' = matcher

\* the list a call on the inputs returned is the one the configuration and the two
\* sequences determine
FunctionOfInputs ==
    pc = "done" => matched_pairs = match(matcher, gen_events, ref_events).pairs

C16_MatchIsPure ==
    /\ [](pc = "done" => matched_pairs = first_pairs[1])
    /\ []FunctionOfInputs
    /\ [][InputsUntouched /\ MatcherUntouched]_vars

\* OverlapMatcher.match called on the inputs, on the inputs exchanged and on the inputs
\* again; its sort put the second reference event first
C16_Witness ==
    /\ pc = "done"
    /\ calls = <<"inputs", "other", "inputs">>
    /\ matcher.name = "overlap"
    /\ gen_events = ReorderedGen
    /\ ref_events = ReorderedRef
    /\ Len(matched_pairs) = 1
    /\ matched_pairs[1].ref_events = <<ReorderedRef[2], ReorderedRef[1]>>
    /\ matched_pairs = first_pairs[1]

(***************************************************************************)
(* C17: ClusterMatcher.match classifies each final component by the        *)
(* origins in it.  Both origins: exactly one 'cluster' record, gen_events  *)
(* and ref_events each sorted by start, gen_start / ref_start the minimum  *)
(* start and gen_end / ref_end the maximum end of that origin's events.    *)
(* Generated events only: one 'generated_only' record per event.           *)
(* Reference events only: one 'reference_only' record per event.           *)
(***************************************************************************)
GenPositions(comp) == {k \in comp : k <= Len(gen_events)}
RefPositions(comp) == {k \in comp : k > Len(gen_events)}

GenOf(comp) == {gen_events[k] : k \in GenPositions(comp)}
RefOf(comp) == {ref_events[k - Len(gen_events)] : k \in RefPositions(comp)}

\* the records that hold an event of the component
RecordsOf(comp) == {r \in 1..Len(matched_pairs) : \E k \in comp : Holds(matched_pairs[r], k)}

Least(values) == CHOOSE v \in values : \A w \in values : v <= w
Greatest(values) == CHOOSE v \in values : \A w \in values : v >= w

IsClusterRecord(rec, comp) ==
    /\ rec.match_type = "cluster"
    /\ rec.matched
    /\ Range(rec.gen_events) = GenOf(comp)
    /\ Len(rec.gen_events) = Cardinality(GenPositions(comp))
    /\ Range(rec.ref_events) = RefOf(comp)
    /\ Len(rec.ref_events) = Cardinality(RefPositions(comp))
    /\ IsSortedByStart(rec.gen_events)
    /\ IsSortedByStart(rec.ref_events)
    /\ rec.gen_start = Some(Least({e.start : e \in GenOf(comp)}))
    /\ rec.gen_end = Some(Greatest({e.end : e \in GenOf(comp)}))
    /\ rec.ref_start = Some(Least({e.start : e \in RefOf(comp)}))
    /\ rec.ref_end = Some(Greatest({e.end : e \in RefOf(comp)}))

IsSingleRecord(rec, k) ==
    IF k <= Len(gen_events)
    THEN /\ rec.match_type = "generated_only"
         /\ ~rec.matched
         /\ rec.gen_events = <<gen_events[k]>>
         /\ rec.ref_events = <<>>
    ELSE /\ rec.match_type = "reference_only"
         /\ ~rec.matched
         /\ rec.gen_events = <<>>
         /\ rec.ref_events = <<ref_events[k - Len(gen_events)]>>

C17_ClusterClassification ==
    Ran("cluster") =>
        \A a \in 1..(Len(gen_events) + Len(ref_events)) :
            LET comp == Component(a)
            IN  IF GenPositions(comp) # {} /\ RefPositions(comp) # {}
                THEN /\ Cardinality(RecordsOf(comp)) = 1
                     /\ \A r \in RecordsOf(comp) : IsClusterRecord(matched_pairs[r], comp)
                ELSE /\ Cardinality(RecordsOf(comp)) = Cardinality(comp)
                     /\ \E r \in RecordsOf(comp) : IsSingleRecord(matched_pairs[r], a)

C17_Witness ==
    /\ Ran("cluster")
    /\ Len(gen_events) = 2
    /\ Len(ref_events) = 1
    /\ Component(1) = {1, 2}
    /\ Len(matched_pairs) = 3
    /\ \E k, l \in 1..3 :
          /\ k # l
          /\ matched_pairs[k].match_type = "generated_only"
          /\ matched_pairs[l].match_type = "generated_only"

(***************************************************************************)
(* C18: the list ClusterMatcher.match returns is sorted, for any input     *)
(* order, by the key (gen_start, 0) for records with generated events and  *)
(* (ref_start, 1) for reference-only records: keys never decrease along    *)
(* the list, and at equal time a record with a generated time precedes a   *)
(* reference-only record.                                                  *)
(***************************************************************************)
RecordTime(rec) == IF rec.gen_events # <<>> THEN rec.gen_start[1] ELSE rec.ref_start[1]
RecordTag(rec) == IF rec.gen_events # <<>> THEN 0 ELSE 1

C18_ClusterOutputSorted ==
    Ran("cluster") =>
        \A k \in 1..(Len(matched_pairs) - 1) :
            LET this == matched_pairs[k]
                next == matched_pairs[k + 1]
            IN  \/ RecordTime(this) < RecordTime(next)
                \/ /\ RecordTime(this) = RecordTime(next)
                   /\ RecordTag(this) <= RecordTag(next)

C18_Witness ==
    /\ Ran("cluster")
    /\ Len(gen_events) = 2
    /\ Len(ref_events) = 1
    /\ gen_events[1].start > gen_events[2].start
    /\ Len(matched_pairs) = 3
    /\ matched_pairs[1].gen_events = <<gen_events[2]>>
    /\ matched_pairs[2].match_type = "reference_only"
    /\ matched_pairs[2].ref_start = matched_pairs[1].gen_start
    /\ matched_pairs[3].gen_events = <<gen_events[1]>>

(***************************************************************************)
(* Vocabulary of the DP claims: the tables _dp_align fills for the         *)
(* similarity matrix of the call, and the scores of all order-preserving   *)
(* alignments, enumerated one by one.                                      *)
(***************************************************************************)
Aligned == Ran("dp") /\ gen_events # <<>> /\ ref_events # <<>>

Tables == dp_tables(matcher, sim_matrix[1])

GapGen == matcher.gap_penalty_gen
GapRef == matcher.gap_penalty_ref

\* the total scores of all alignments of the first i generated and j reference events,
\* each total summed step by step from (0, 0) on, in floats
RECURSIVE AlignmentTotals(_, _)
AlignmentTotals(i, j) ==
    IF i = 0 /\ j = 0 THEN {FloatZero}
    ELSE (IF i > 0 /\ j > 0
          THEN {FloatAdd(t, sim_matrix[1].S[i - 1, j - 1]) :
                   t \in AlignmentTotals(i - 1, j - 1)}
          ELSE {})
         \cup (IF i > 0 THEN {FloatAdd(t, GapGen) : t \in AlignmentTotals(i - 1, j)}
               ELSE {})
         \cup (IF j > 0 THEN {FloatAdd(t, GapRef) : t \in AlignmentTotals(i, j - 1)}
               ELSE {})

\* the greatest of a set of floats
FloatGreatest(values) == CHOOSE v \in values : \A w \in values : FloatGe(v, w)

\* the scores of the steps added up from the first step on
RECURSIVE SumOfScores(_)
SumOfScores(al) ==
    IF al = <<>> THEN FloatZero
    ELSE FloatAdd(SumOfScores(SubSeq(al, 1, Len(al) - 1)), al[Len(al)][3])

\* the score an alignment step carries is the one of its kind
StepScored(step) ==
    IF step[1] # None /\ step[2] # None
    THEN step[3] = sim_matrix[1].S[step[1][1], step[2][1]]
    ELSE IF step[1] # None THEN step[3] = GapGen
    ELSE step[2] # None /\ step[3] = GapRef

(***************************************************************************)
(* C19: dp[n][m] is the maximum, over all order-preserving alignments of   *)
(* the n generated and m reference events, of the sum of the similarities  *)
(* of the pairs plus gap_penalty_gen per skipped generated event plus      *)
(* gap_penalty_ref per skipped reference event, and the alignment returned *)
(* attains it: the scores of its steps sum to dp[n][m].                    *)
(***************************************************************************)
C19_DPOptimal ==
    Aligned =>
        LET n == Len(gen_events)
            m == Len(ref_events)
            best == Tables.dp[n, m]
        IN  /\ best = FloatGreatest(AlignmentTotals(n, m))
            /\ \A k \in 1..Len(alignment[1]) : StepScored(alignment[1][k])
            /\ SumOfScores(alignment[1]) = best

C19_Witness ==
    /\ Aligned
    /\ Len(gen_events) = 1
    /\ Len(ref_events) = 2
    /\ Cardinality(AlignmentTotals(1, 2)) >= 3
    /\ alignment[1][2][1] = None
    /\ matched_pairs[1].match_type = "dp_match"
    /\ matched_pairs[2].match_type = "dp_ref_gap"
    /\ SumOfScores(alignment[1]) = FloatGreatest(AlignmentTotals(1, 2))

(***************************************************************************)
(* C20: at every cell (i, j) with i, j >= 1 the choice recorded on equal   *)
(* candidate scores is diagonal over skip-generated over skip-reference:   *)
(* skip-generated is recorded only if its score is strictly greater than   *)
(* the diagonal score, skip-reference only if its score is strictly        *)
(* greater than both; and backtracking follows the recorded choice of      *)
(* every cell it visits.                                                   *)
(***************************************************************************)
MatchScore(tables, i, j) == FloatAdd(tables.dp[i - 1, j - 1], sim_matrix[1].S[i - 1, j - 1])
SkipGenScore(tables, i, j) == FloatAdd(tables.dp[i - 1, j], GapGen)
SkipRefScore(tables, i, j) == FloatAdd(tables.dp[i, j - 1], GapRef)

\* the steps from (0, 0) to (i, j) read off the recorded choices
RECURSIVE RecordedPath(_, _, _)
RecordedPath(bt, i, j) ==
    IF i = 0 /\ j = 0 THEN <<>>
    ELSE IF bt[i, j] = 0
    THEN Append(RecordedPath(bt, i - 1, j - 1), <<Some(i - 1), Some(j - 1)>>)
    ELSE IF bt[i, j] = 1
    THEN Append(RecordedPath(bt, i - 1, j), <<Some(i - 1), None>>)
    ELSE Append(RecordedPath(bt, i, j - 1), <<None, Some(j - 1)>>)

C20_DPTieBreak ==
    Aligned =>
        LET n == Len(gen_events)
            m == Len(ref_events)
            tables == Tables
        IN  /\ \A i \in 1..n, j \in 1..m :
                  LET match_score == MatchScore(tables, i, j)
                      skip_gen_score == SkipGenScore(tables, i, j)
                      skip_ref_score == SkipRefScore(tables, i, j)
                  IN  /\ tables.bt[i, j] \in {0, 1, 2}
                      /\ tables.bt[i, j] = 1 =>
                            /\ FloatGt(skip_gen_score, match_score)
                            /\ FloatGe(skip_gen_score, skip_ref_score)
                      /\ tables.bt[i, j] = 2 =>
                            /\ FloatGt(skip_ref_score, match_score)
                            /\ FloatGt(skip_ref_score, skip_gen_score)
                      /\ tables.bt[i, j] = 0 =>
                            /\ FloatGe(match_score, skip_gen_score)
                            /\ FloatGe(match_score, skip_ref_score)
            /\ [k \in 1..Len(alignment[1]) |-> <<alignment[1][k][1], alignment[1][k][2]>>]
                  = RecordedPath(tables.bt, n, m)

C20_Witness ==
    /\ Aligned
    /\ Len(gen_events) = 2
    /\ Len(ref_events) = 1
    /\ LET tables == Tables
       IN  /\ MatchScore(tables, 2, 1) = SkipGenScore(tables, 2, 1)
           /\ FloatGt(MatchScore(tables, 2, 1), SkipRefScore(tables, 2, 1))
           /\ tables.bt[2, 1] = 0
    /\ matched_pairs[1].match_type = "dp_gen_gap"
    /\ matched_pairs[2].match_type = "dp_match"

C20_WitnessSkips ==
    /\ Aligned
    /\ Len(gen_events) = 1
    /\ Len(ref_events) = 1
    /\ LET tables == Tables
       IN  /\ SkipGenScore(tables, 1, 1) = SkipRefScore(tables, 1, 1)
           /\ FloatGt(SkipGenScore(tables, 1, 1), MatchScore(tables, 1, 1))
           /\ tables.bt[1, 1] = 1
    /\ matched_pairs[1].match_type = "dp_ref_gap"
    /\ matched_pairs[2].match_type = "dp_gen_gap"

(***************************************************************************)
(* C21: DPMatcher.match turns each step of the alignment path into exactly *)
(* one record, in path order from (0, 0) to (n, m): a diagonal step into a *)
(* matched 1:1 'dp_match' record whose score is combined(g, r) of its      *)
(* pair, a skip-generated step into an unmatched 'dp_gen_gap' record that  *)
(* holds the generated event alone, a skip-reference step into an          *)
(* unmatched 'dp_ref_gap' record that holds the reference event alone.     *)
(***************************************************************************)
RecordOfStep(rec, step) ==
    IF step[1] # None /\ step[2] # None
    THEN LET g == gen_events[step[1][1] + 1]
             r == ref_events[step[2][1] + 1]
         IN  /\ rec.match_type = "dp_match"
             /\ rec.matched
             /\ rec.gen_events = <<g>> /\ rec.gen_indices = <<g.index>>
             /\ rec.ref_events = <<r>> /\ rec.ref_indices = <<r.index>>
             /\ rec.score = Some(combined_similarity(matcher, g, r).value)
    ELSE IF step[1] # None
    THEN LET g == gen_events[step[1][1] + 1]
         IN  /\ rec.match_type = "dp_gen_gap"
             /\ ~rec.matched
             /\ rec.gen_events = <<g>> /\ rec.gen_indices = <<g.index>>
             /\ rec.ref_events = <<>> /\ rec.ref_indices = <<>>
             /\ rec.combined_ref_text = <<>>
             /\ rec.ref_start = None /\ rec.ref_end = None
    ELSE LET r == ref_events[step[2][1] + 1]
         IN  /\ rec.match_type = "dp_ref_gap"
             /\ ~rec.matched
             /\ rec.gen_events = <<>> /\ rec.gen_indices = <<>>
             /\ rec.ref_events = <<r>> /\ rec.ref_indices = <<r.index>>
             /\ rec.combined_gen_text = <<>>
             /\ rec.gen_start = None /\ rec.gen_end = None

C21_DPRecordPerStep ==
    Aligned =>
        LET path == RecordedPath(Tables.bt, Len(gen_events), Len(ref_events))
        IN  /\ Len(matched_pairs) = Len(path)
            /\ \A k \in 1..Len(path) : RecordOfStep(matched_pairs[k], path[k])

C21_Witness ==
    /\ Aligned
    /\ Len(gen_events) = 2
    /\ Len(ref_events) = 1
    /\ gen_events[1].index = 1
    /\ Len(matched_pairs) = 2
    /\ matched_pairs[1].match_type = "dp_match"
    /\ matched_pairs[1].score # Some(FloatZero)
    /\ matched_pairs[2].match_type = "dp_gen_gap"

C21_WitnessAllGaps ==
    /\ Aligned
    /\ Len(gen_events) = 1
    /\ Len(ref_events) = 2
    /\ Len(matched_pairs) = 3
    /\ matched_pairs[1].match_type = "dp_ref_gap"
    /\ matched_pairs[3].match_type = "dp_gen_gap"

(***************************************************************************)
(* C22: for DPMatcher with non-empty inputs, if gap_penalty_gen +           *)
(* gap_penalty_ref is strictly greater than combined(g, r) for every        *)
(* generated / reference pair, the output holds no dp_match record: it is   *)
(* exactly n dp_gen_gap records and m dp_ref_gap records.                   *)
(***************************************************************************)
GapsBeatAllPairs ==
    \A k \in 1..Len(gen_events), l \in 1..Len(ref_events) :
        FloatGt(FloatAdd(GapGen, GapRef),
                combined_similarity(matcher, gen_events[k], ref_events[l]).value)

RecordsOfType(match_type) ==
    {k \in 1..Len(matched_pairs) : matched_pairs[k].match_type = match_type}

C22_DPAllGaps ==
    (Aligned /\ GapsBeatAllPairs) =>
        /\ RecordsOfType("dp_match") = {}
        /\ Cardinality(RecordsOfType("dp_gen_gap")) = Len(gen_events)
        /\ Cardinality(RecordsOfType("dp_ref_gap")) = Len(ref_events)
        /\ Len(matched_pairs) = Len(gen_events) + Len(ref_events)

\* the sum of the penalties, 1/4, beats every pair, the second one by less than the
\* rounding of dp[1][0] + S[1][0], which is 3/8 like the skip candidate: a tie that the
\* diagonal wins
C22_RoundedTie ==
    /\ Aligned
    /\ gen_events = NearTieGen
    /\ ref_events = NearTieRef
    /\ GapsBeatAllPairs
    /\ LET tables == Tables
       IN  /\ MatchScore(tables, 2, 1) = SkipGenScore(tables, 2, 1)
           /\ MatchScore(tables, 2, 1) = FloatDiv(3, 8)
           /\ tables.bt[2, 1] = 0
    /\ matched_pairs[2].match_type = "dp_match"
    /\ matched_pairs[2].score = Some(sim_matrix[1].S[1, 0])
    /\ FloatGt(FloatDiv(1, 4), sim_matrix[1].S[1, 0])

(***************************************************************************)
(* C23: in each matched record of OverlapMatcher, ref_events is exactly    *)
(* the set of reference events whose overlap_duration with the generated   *)
(* event is >= min_overlap_sec, listed by descending overlap duration with *)
(* equal durations kept in reference input order; ref_start is the minimum *)
(* start and ref_end the maximum end over those events, and                *)
(* combined_ref_text joins their texts in start-time order.                *)
(***************************************************************************)
\* the position of an event in the reference input
RefPosition(event) == CHOOSE l \in 1..Len(ref_events) : ref_events[l] = event

TextsOf(events) == join(Str(" "), [k \in 1..Len(events) |-> events[k].text])

C23_OverlapRecordContents ==
    Ran("overlap") =>
        \A k \in 1..Len(matched_pairs) :
            matched_pairs[k].matched =>
                LET rec == matched_pairs[k]
                    g == gen_events[k]
                    kept == {l \in 1..Len(ref_events) : Claims(k, l)}
                IN  /\ Range(rec.ref_events) = {ref_events[l] : l \in kept}
                    /\ Len(rec.ref_events) = Cardinality(kept)
                    /\ rec.ref_indices = Indices(rec.ref_events)
                    /\ \A a, b \in 1..Len(rec.ref_events) :
                          a < b =>
                             LET oa == overlap_duration(g, rec.ref_events[a])
                                 ob == overlap_duration(g, rec.ref_events[b])
                             IN  \/ oa > ob
                                 \/ /\ oa = ob
                                    /\ RefPosition(rec.ref_events[a])
                                          < RefPosition(rec.ref_events[b])
                    /\ rec.ref_start = Some(Least({ref_events[l].start : l \in kept}))
                    /\ rec.ref_end = Some(Greatest({ref_events[l].end : l \in kept}))
                    /\ \E order \in Reorderings(rec.ref_events) :
                          /\ IsSortedByStart(order)
                          /\ rec.combined_ref_text = TextsOf(order)

\* two kept events of equal overlap, listed in input order, texts by start time
C23_Witness ==
    /\ Ran("overlap")
    /\ Len(gen_events) = 1
    /\ Len(ref_events) = 2
    /\ ref_events[1].index = 1
    /\ overlap_duration(gen_events[1], ref_events[1])
          = overlap_duration(gen_events[1], ref_events[2])
    /\ overlap_duration(gen_events[1], ref_events[1]) > 0
    /\ ref_events[1].start > ref_events[2].start
    /\ ref_events[1].text # ref_events[2].text
    /\ matched_pairs[1].ref_events = ref_events
    /\ matched_pairs[1].combined_ref_text
          = ref_events[2].text \o Str(" ") \o ref_events[1].text

\* the later reference event overlaps more and is listed first
C23_WitnessDescending ==
    /\ Ran("overlap")
    /\ Len(gen_events) = 1
    /\ Len(ref_events) = 2
    /\ overlap_duration(gen_events[1], ref_events[1])
          < overlap_duration(gen_events[1], ref_events[2])
    /\ matched_pairs[1].ref_events = <<ref_events[2], ref_events[1]>>

(***************************************************************************)
(* C24: when min_overlap_sec is strictly greater than the overlap duration *)
(* of every pair of input events, ClusterMatcher returns only unmatched    *)
(* records, one generated_only per generated event and one reference_only  *)
(* per reference event, and OverlapMatcher returns only no_overlap         *)
(* records; no record has matched = true.                                  *)
(***************************************************************************)
AboveEveryOverlap ==
    LET events == UnifiedEvents(gen_events, ref_events)
    IN  \A k, l \in 1..Len(events) :
            k # l => matcher.min_overlap_sec
                        > overlap_duration(events[k].event, events[l].event) * TimeDen

C24_NothingMatched ==
    /\ (Ran("cluster") /\ AboveEveryOverlap) =>
          /\ Len(matched_pairs) = Len(gen_events) + Len(ref_events)
          /\ \A k \in 1..(Len(gen_events) + Len(ref_events)) :
                Cardinality({r \in 1..Len(matched_pairs) :
                                IsSingleRecord(matched_pairs[r], k)}) = 1
          /\ \A r \in 1..Len(matched_pairs) : ~matched_pairs[r].matched
    /\ (Ran("overlap") /\ AboveEveryOverlap) =>
          /\ Len(matched_pairs) = Len(gen_events)
          /\ \A r \in 1..Len(matched_pairs) :
                /\ matched_pairs[r].match_type = "no_overlap"
                /\ ~matched_pairs[r].matched
                /\ matched_pairs[r].gen_events = <<gen_events[r]>>

C24_Witness ==
    /\ Ran("cluster")
    /\ AboveEveryOverlap
    /\ Len(gen_events) = 2
    /\ Len(ref_events) = 1
    /\ overlap_duration(gen_events[1], ref_events[1]) > 0
    /\ overlap_duration(gen_events[1], gen_events[2]) > 0
    /\ Len(matched_pairs) = 3
    /\ \A r \in 1..3 : ~matched_pairs[r].matched

C24_WitnessOverlap ==
    /\ Ran("overlap")
    /\ AboveEveryOverlap
    /\ Len(gen_events) = 1
    /\ Len(ref_events) = 2
    /\ overlap_duration(gen_events[1], ref_events[2]) > 0
    /\ matched_pairs[1].match_type = "no_overlap"

(***************************************************************************)
(* C25: with min_overlap_sec = 0, any two events whose intervals touch     *)
(* with a zero-width intersection (one ends exactly where the other        *)
(* starts) are linked: ClusterMatcher puts them in the same component (and *)
(* a generated and a reference event that touch share one 'cluster'        *)
(* record), OverlapMatcher keeps the reference event for the generated     *)
(* event.                                                                  *)
(***************************************************************************)
Touching(e1, e2) ==
    /\ e1.end = e2.start \/ e2.end = e1.start
    /\ Min(e1.end, e2.end) = Max(e1.start, e2.start)

C25_TouchingLinkedAtZero ==
    /\ (Ran("cluster") /\ matcher.min_overlap_sec = 0) =>
          LET events == UnifiedEvents(gen_events, ref_events)
          IN  \A k, l \in 1..Len(events) :
                  Touching(events[k].event, events[l].event) =>
                      /\ l \in Component(k)
                      /\ (k <= Len(gen_events) /\ l > Len(gen_events)) =>
                            \E r \in 1..Len(matched_pairs) :
                                /\ matched_pairs[r].match_type = "cluster"
                                /\ Holds(matched_pairs[r], k)
                                /\ Holds(matched_pairs[r], l)
    /\ (Ran("overlap") /\ matcher.min_overlap_sec = 0) =>
          \A k \in 1..Len(gen_events), l \in 1..Len(ref_events) :
              Touching(gen_events[k], ref_events[l]) =>
                  /\ matched_pairs[k].match_type = "overlap"
                  /\ ref_events[l] \in Range(matched_pairs[k].ref_events)

C25_Witness ==
    /\ Ran("cluster")
    /\ matcher.min_overlap_sec = 0
    /\ Len(gen_events) = 1
    /\ Len(ref_events) = 1
    /\ gen_events[1].start < gen_events[1].end
    /\ gen_events[1].end = ref_events[1].start
    /\ ref_events[1].start < ref_events[1].end
    /\ Len(matched_pairs) = 1
    /\ matched_pairs[1].match_type = "cluster"

C25_WitnessOverlap ==
    /\ Ran("overlap")
    /\ matcher.min_overlap_sec = 0
    /\ Len(gen_events) = 1
    /\ Len(ref_events) = 1
    /\ ref_events[1].start < ref_events[1].end
    /\ ref_events[1].end = gen_events[1].start
    /\ gen_events[1].start < gen_events[1].end
    /\ matched_pairs[1].ref_events = ref_events

(***************************************************************************)
(* C26: after any sequence of union calls on a UnionFind over n indices,   *)
(* find(x) = find(y) iff x and y are related by the reflexive, symmetric,  *)
(* transitive closure of the pairs passed to union; find(x) always returns *)
(* an index r in 0 .. n-1 with find(r) = r; and a find call, with its path *)
(* compression, never changes which indices share a component.             *)
(***************************************************************************)
\* the indices reached from the set seen along the pairs, in either direction
RECURSIVE Reached(_, _)
Reached(seen, pairs) ==
    LET more == seen \cup {p[2] : p \in {q \in pairs : q[1] \in seen}}
                     \cup {p[1] : p \in {q \in pairs : q[2] \in seen}}
    IN  IF more = seen THEN seen ELSE Reached(more, pairs)

Related(x, y, pairs) == y \in Reached({x}, pairs)

\* the sets of indices that share a representative in the structure u
Partition(u) ==
    {{y \in DOMAIN u.parent : FindRoot(u.parent, y) = FindRoot(u.parent, x)} :
        x \in DOMAIN u.parent}

UnionFindCalled == pc \in {"init", "union", "find"}

C26_Components ==
    UnionFindCalled =>
        LET parent == uf[1].parent
        IN  \A x, y \in DOMAIN parent :
                /\ (FindRoot(parent, x) = FindRoot(parent, y)) <=> Related(x, y, calls)
                /\ FindRoot(parent, x) \in DOMAIN parent
                /\ FindRoot(parent, FindRoot(parent, x)) = FindRoot(parent, x)
                /\ FindRoot(find(uf[1], x).parent, y) = FindRoot(parent, y)

C26_FindKeepsComponents ==
    (UnionFindCalled /\ pc' = "find") => Partition(uf'[1]) = Partition(uf[1])

C26_UnionFindEquivalence == []C26_Components /\ [][C26_FindKeepsComponents]_vars

\* a find has flattened a tree of rank 2: every index points at the representative
C26_Witness ==
    /\ pc = "find"
    /\ Cardinality(DOMAIN uf[1].parent) = 4
    /\ Cardinality(calls) = 3
    /\ \E r \in DOMAIN uf[1].parent :
          /\ uf[1].rank[r] = 2
          /\ \A x \in DOMAIN uf[1].parent : uf[1].parent[x] = r
    /\ Partition(uf[1]) = {DOMAIN uf[1].parent}

\* a chain of two links that no find has compressed yet, beside a separate index
C26_WitnessChain ==
    /\ pc = "union"
    /\ \E x \in DOMAIN uf[1].parent :
          /\ uf[1].parent[x] # x
          /\ uf[1].parent[uf[1].parent[x]] # uf[1].parent[x]
    /\ Cardinality(Partition(uf[1])) = 1

(***************************************************************************)
(* C27: with min_overlap_sec <= 0 the link test is true for every pair of  *)
(* events, also for intervals that are disjoint with a positive gap, since *)
(* the overlap duration is clamped to 0 before the comparison.             *)
(* ClusterMatcher with both inputs non-empty then returns exactly one      *)
(* 'cluster' record that holds all events, and OverlapMatcher with a       *)
(* non-empty reference input returns for every generated event a matched   *)
(* record that holds all reference events.                                 *)
(***************************************************************************)
NoMinimum == matcher.min_overlap_sec <= 0

\* the gap between two disjoint intervals, negative when they meet
Gap(e1, e2) == Max(e1.start, e2.start) - Min(e1.end, e2.end)

C27_NoMinimumLinksAll ==
    /\ ((Ran("cluster") \/ Ran("overlap")) /\ NoMinimum) =>
          \A k, l \in 1..(Len(gen_events) + Len(ref_events)) : Linked(k, l)
    /\ (Ran("cluster") /\ NoMinimum /\ gen_events # <<>> /\ ref_events # <<>>) =>
          /\ Len(matched_pairs) = 1
          /\ IsClusterRecord(matched_pairs[1], 1..(Len(gen_events) + Len(ref_events)))
    /\ (Ran("overlap") /\ NoMinimum /\ ref_events # <<>>) =>
          /\ Len(matched_pairs) = Len(gen_events)
          /\ \A k \in 1..Len(matched_pairs) :
                /\ matched_pairs[k].matched
                /\ matched_pairs[k].match_type = "overlap"
                /\ matched_pairs[k].gen_events = <<gen_events[k]>>
                /\ Range(matched_pairs[k].ref_events) = Range(ref_events)
                /\ Len(matched_pairs[k].ref_events) = Len(ref_events)

C27_Witness ==
    /\ Ran("cluster")
    /\ matcher.min_overlap_sec = 0
    /\ Len(gen_events) = 2
    /\ Len(ref_events) = 1
    /\ Gap(gen_events[1], ref_events[1]) > 0
    /\ Gap(gen_events[2], ref_events[1]) > 0
    /\ Gap(gen_events[1], gen_events[2]) > 0
    /\ Len(matched_pairs) = 1
    /\ matched_pairs[1].match_type = "cluster"
    /\ Len(matched_pairs[1].gen_events) = 2

C27_WitnessOverlap ==
    /\ Ran("overlap")
    /\ matcher.min_overlap_sec < 0
    /\ Len(gen_events) = 1
    /\ Len(ref_events) = 2
    /\ Gap(gen_events[1], ref_events[1]) > 0
    /\ Gap(gen_events[1], ref_events[2]) > 0
    /\ Len(matched_pairs[1].ref_events) = 2

(***************************************************************************)
(* C28: two events are in the same 'cluster' record of ClusterMatcher only *)
(* if a chain of events joins them in which each consecutive pair overlaps *)
(* by at least min_overlap_sec; the groups the matcher forms are exactly    *)
(* the connected components of the pairwise-overlap graph over the         *)
(* combined event list, never a union of two unconnected components.       *)
(***************************************************************************)
\* the edges of the pairwise-overlap graph, over positions of the unified list
Positions == 1..(Len(gen_events) + Len(ref_events))

OverlapEdges == {e \in Positions \X Positions : e[1] # e[2] /\ Linked(e[1], e[2])}

\* the positions joined to position k by a chain of edges
GraphComponent(k) == Reached({k}, OverlapEdges)

\* the positions of the events a record holds
PositionsOf(rec) == {k \in Positions : Holds(rec, k)}

C28_ClustersAreComponents ==
    Ran("cluster") =>
        /\ \A k \in Positions : Component(k) = GraphComponent(k)
        /\ \A r \in 1..Len(matched_pairs) :
              \A k \in PositionsOf(matched_pairs[r]) :
                  IF matched_pairs[r].match_type = "cluster"
                  THEN PositionsOf(matched_pairs[r]) = GraphComponent(k)
                  ELSE PositionsOf(matched_pairs[r]) = {k}

\* a cluster of two events beside an event that touches one of them but overlaps none
C28_Witness ==
    /\ Ran("cluster")
    /\ matcher.min_overlap_sec = 1
    /\ Len(gen_events) = 1
    /\ Len(ref_events) = 2
    /\ GraphComponent(1) = {1, 2}
    /\ Touching(ref_events[1], ref_events[2])
    /\ Len(matched_pairs) = 2
    /\ \E r \in 1..2 :
          /\ matched_pairs[r].match_type = "cluster"
          /\ PositionsOf(matched_pairs[r]) = {1, 2}

\* a chain: the ends do not overlap each other and are joined through the middle
C28_WitnessChain ==
    /\ Ran("cluster")
    /\ Len(gen_events) = 2
    /\ Len(ref_events) = 1
    /\ ~Linked(1, 2)
    /\ GraphComponent(1) = {1, 2, 3}
    /\ Len(matched_pairs) = 1

(***************************************************************************)
(* C29: the backtracking loop of DPMatcher._dp_align terminates for every  *)
(* n, m >= 0: i + j strictly decreases at each step and neither coordinate *)
(* goes below 0; it ends at (0, 0); the reversed alignment lists the       *)
(* generated positions 0 .. n-1 in strictly increasing order and the       *)
(* reference positions 0 .. m-1 in strictly increasing order, each exactly *)
(* once; its length is between max(n, m) and n + m.                        *)
(***************************************************************************)
\* the positions an alignment lists in column c (1: generated, 2: reference), in order
RECURSIVE Listed(_, _)
Listed(al, c) ==
    IF al = <<>> THEN <<>>
    ELSE (IF Head(al)[c] # None THEN <<Head(al)[c][1]>> ELSE <<>>) \o Listed(Tail(al), c)

\* the sequence 0, 1, ..., n-1
UpTo(n) == [k \in 1..n |-> k - 1]

C29_StepDecreases ==
    (pc = "backtracking" /\ pc' = "backtracking") =>
        /\ ij'[1][1] + ij'[1][2] < ij[1][1] + ij[1][2]
        /\ ij'[1][1] >= 0
        /\ ij'[1][2] >= 0
        /\ Len(alignment'[1]) = Len(alignment[1]) + 1

C29_Returned ==
    pc = "aligned" =>
        LET n == Len(gen_events)
            m == Len(ref_events)
            al == alignment[1]
        IN  /\ ij = Some(<<0, 0>>)
            /\ Listed(al, 1) = UpTo(n)
            /\ Listed(al, 2) = UpTo(m)
            /\ Len(al) >= Max(n, m)
            /\ Len(al) <= n + m
            /\ \A k \in 1..Len(al) : al[k][1] # None \/ al[k][2] # None
            /\ al = dp_align(matcher, sim_matrix[1])

C29_BacktrackingTerminates ==
    /\ [][C29_StepDecreases]_vars
    /\ []C29_Returned
    /\ <>(pc = "aligned")

C29_Witness ==
    /\ pc = "aligned"
    /\ Len(gen_events) = 1
    /\ Len(ref_events) = 2
    /\ ij = Some(<<0, 0>>)
    /\ Len(alignment[1]) = 2
    /\ alignment[1][1][1] = None
    /\ alignment[1][2][1] = Some(0)
    /\ alignment[1][2][2] = Some(1)

\* _dp_align on a matrix without rows: the loop runs along the edge of the table
C29_WitnessEdge ==
    /\ pc = "aligned"
    /\ Len(gen_events) = 0
    /\ Len(ref_events) = 2
    /\ Listed(alignment[1], 2) = <<0, 1>>

(***************************************************************************)
(* C30: for the records any of the three matchers produces from inputs     *)
(* whose indices are unique within each sequence, calculate_coverage_stats *)
(* yields 0 <= gen_matched <= gen_total and 0 <= ref_matched <= ref_total, *)
(* so gen_unmatched and ref_unmatched are non-negative, and precision,     *)
(* recall and f1 each lie in [0, 1].  Stated of the statistics and scores  *)
(* run_evaluation computed, of the same functions applied to the result of *)
(* a direct call of a matcher, and of the floats that lines 199-201 give   *)
(* for all counts within their totals, up to MaxTotalGen and MaxTotalRef.  *)
(***************************************************************************)
UniqueIndices(events) ==
    \A a, b \in 1..Len(events) : a # b => events[a].index # events[b].index

ScoresOfRecords ==
    IF Evaluated THEN scores[1]
    ELSE Scores(Counts(Len(gen_events), Len(ref_events),
                       CoverageOfRecords.gen_matched, CoverageOfRecords.ref_matched))

\* the float x lies in [0, 1]
InUnitInterval(x) == FloatGe(x, FloatZero) /\ FloatGe(FloatFromInt(1), x)

\* counts as the first half of the claim gives them
WithinTotals(c) ==
    /\ 0 <= c.matched_gen /\ c.matched_gen <= c.total_gen
    /\ 0 <= c.matched_ref /\ c.matched_ref <= c.total_ref

C30_CoverageWithinTotals ==
    /\ ((Evaluated \/ pc = "done") /\ UniqueIndices(gen_events) /\ UniqueIndices(ref_events)) =>
           LET cov == CoverageOfRecords
               sc == ScoresOfRecords
           IN  /\ 0 <= cov.gen_matched /\ cov.gen_matched <= cov.gen_total
               /\ 0 <= cov.ref_matched /\ cov.ref_matched <= cov.ref_in_range
               /\ cov.gen_total = Len(gen_events)
               /\ cov.ref_in_range = Len(ref_events)
               /\ cov.gen_unmatched >= 0
               /\ cov.ref_unmatched >= 0
               /\ InUnitInterval(sc.precision)
               /\ InUnitInterval(sc.recall)
               /\ InUnitInterval(sc.f1_score)
    /\ (Scored /\ WithinTotals(counts[1])) =>
           /\ InUnitInterval(scores[1].precision)
           /\ InUnitInterval(scores[1].recall)
           /\ InUnitInterval(scores[1].f1_score)

\* a direct DP call that matches one of two generated events with the only reference
C30_Witness ==
    /\ Ran("dp")
    /\ Len(gen_events) = 2
    /\ Len(ref_events) = 1
    /\ CoverageOfRecords.gen_matched = 1
    /\ CoverageOfRecords.gen_unmatched = 1
    /\ CoverageOfRecords.ref_matched = 1
    /\ ScoresOfRecords.precision = FloatDiv(1, 2)
    /\ ScoresOfRecords.recall = FloatFromInt(1)
    /\ ScoresOfRecords.f1_score = FloatDiv(2, 3)

\* counts whose F1 is not the float nearest to 2 P R / (P + R) = 4/7: P = 1/2, R = 2/3
C30_WitnessRounded ==
    /\ Scored
    /\ counts = Some(Counts(2, 3, 1, 2))
    /\ scores[1].precision = FloatDiv(1, 2)
    /\ scores[1].recall = FloatDiv(2, 3)
    /\ scores[1].f1_score # FloatDiv(4, 7)
    /\ InUnitInterval(scores[1].f1_score)

\* an evaluation in which one reference event is shared by two records
C30_WitnessShared ==
    /\ Evaluated
    /\ matcher.name = "overlap"
    /\ Len(gen_events) = 2
    /\ Len(ref_events) = 1
    /\ Len(AllRefIndices) = 2
    /\ coverage[1].ref_matched = 1
    /\ scores[1].recall = FloatFromInt(1)

=============================================================================
